---- MODULE Spec2Model ----
(***************************************************************************)
(* LitFinder: the federated search pipeline of the backend.                *)
(*                                                                         *)
(*   SearchService.search   app/services/search_service.py                 *)
(*   CacheService           app/services/cache_service.py                  *)
(*   RankingService         app/services/ranking_service.py                *)
(*   OpenAlexClient         app/integrations/openalex.py                   *)
(*   CyberLeninkaClient     app/integrations/cyberleninka.py               *)
(*                                                                         *)
(* Python values are carried as tagged records [ty, val], so that the type *)
(* dispatch of json.dumps / json.loads and Python truthiness can be        *)
(* written as the interpreter performs them.  A Python str is a sequence   *)
(* of one-character strings, so that lower(), split() and `in` can look at *)
(* its characters.  A float is a fixed-point integer in units of 1/SCALE.  *)
(***************************************************************************)
EXTENDS Integers, Sequences, FiniteSets, TLC

VARIABLES
    upstream,   \* what the two providers hold; fixed during a behaviour
    redisUp,    \* whether the Redis server answers
    redis,      \* the Redis keyspace: key -> [data, ttl]
    cs,         \* the cache_service singleton: [initialized, client]
    pc,         \* where SearchService.search stands: "idle", "gather", "done"
    req,        \* the arguments of the search() call in flight
    oa,         \* the _search_openalex task of the call in flight
    cl,         \* the _search_cyberleninka task of the call in flight
    order,      \* the tasks of the call in flight, in the order they finished
    ranked,     \* the list rank_results returned to search() (before [:limit])
    response,   \* the dict search() returns
    cacheOps,   \* cache calls made by the call in flight: [get, set]
    stored,     \* history: cache key -> the last response search() built from the
                \* sources for an offset request with that key, and its age
    prior,      \* history: what `stored` held for the call in flight when it began
    phases,     \* history: the phases of search() the call in flight has entered
    nreq,       \* number of search() calls started
    call        \* one _request call of an adapter client, HTTP attempt by attempt

vars == <<upstream, redisUp, redis, cs, pc, req, oa, cl, order, ranked,
          response, cacheOps, stored, prior, phases, nreq, call>>

-----------------------------------------------------------------------------
(* Bounds of the model.                                                    *)

\* search() calls served in one behaviour
MaxRequests == 2
\* seconds that pass in one Tick between two calls
TickSeconds == 900
\* what int((time.time() - start_time) * 1000) reads on a cache miss
ElapsedMissMs == 40

-----------------------------------------------------------------------------
(* Python values.                                                          *)

PyNone == [ty |-> "NoneType"]
PyBool(b) == [ty |-> "bool", val |-> b]
PyInt(i) == [ty |-> "int", val |-> i]
PyFloat(x) == [ty |-> "float", val |-> x]
PyStr(s) == [ty |-> "str", val |-> s]
PyList(s) == [ty |-> "list", val |-> s]
PyDict(d) == [ty |-> "dict", val |-> d]

\* bool(v), as `if v:` and `not v` and `a or b` evaluate it
Truthy(v) ==
    CASE v.ty = "NoneType" -> FALSE
      [] v.ty = "bool" -> v.val
      [] v.ty = "int" -> v.val # 0
      [] v.ty = "float" -> v.val # 0
      [] v.ty = "str" -> v.val # <<>>
      [] v.ty = "list" -> v.val # <<>>
      [] v.ty = "dict" -> DOMAIN v.val # {}
      [] OTHER -> TRUE

\* d.get(k, default) on a Python dict
DictGet(d, k, default) == IF k \in DOMAIN d.val THEN d.val[k] ELSE default

\* d[k] = v on a Python dict (k may be new)
DictSet(d, k, v) ==
    PyDict([x \in DOMAIN d.val \cup {k} |-> IF x = k THEN v ELSE d.val[x]])

\* units of one in the fixed-point floats: round(final_score, 4)
SCALE == 10000

Min(a, b) == IF a <= b THEN a ELSE b
Max(a, b) == IF a >= b THEN a ELSE b

-----------------------------------------------------------------------------
(* Text.                                                                   *)

UpperCase == <<"A","B","C","D","E","F","G","H","I","J","K","L","M",
               "N","O","P","Q","R","S","T","U","V","W","X","Y","Z">>
LowerCase == <<"a","b","c","d","e","f","g","h","i","j","k","l","m",
               "n","o","p","q","r","s","t","u","v","w","x","y","z">>

LowerChar(c) ==
    IF \E i \in 1..26 : UpperCase[i] = c
    THEN LowerCase[CHOOSE i \in 1..26 : UpperCase[i] = c]
    ELSE c

\* str.lower()
Lower(s) == [i \in 1..Len(s) |-> LowerChar(s[i])]

IsSpace(c) == c = " "

\* str.strip()
RECURSIVE LStrip(_)
LStrip(s) == IF s # <<>> /\ IsSpace(Head(s)) THEN LStrip(Tail(s)) ELSE s
RECURSIVE RStrip(_)
RStrip(s) ==
    IF s # <<>> /\ IsSpace(s[Len(s)]) THEN RStrip(SubSeq(s, 1, Len(s) - 1)) ELSE s
Strip(s) == RStrip(LStrip(s))

\* str.split(): the maximal runs of non-blank characters, in order
RECURSIVE SplitFrom(_, _, _)
SplitFrom(s, cur, acc) ==
    IF s = <<>> THEN (IF cur = <<>> THEN acc ELSE Append(acc, cur))
    ELSE IF IsSpace(Head(s))
         THEN SplitFrom(Tail(s), <<>>, IF cur = <<>> THEN acc ELSE Append(acc, cur))
         ELSE SplitFrom(Tail(s), Append(cur, Head(s)), acc)
Split(s) == SplitFrom(s, <<>>, <<>>)

\* `w in text` on two str
Contains(text, w) ==
    \E i \in 0..(Len(text) - Len(w)) : SubSeq(text, i + 1, i + Len(w)) = w

\* " ".join(parts)
RECURSIVE JoinSpace(_)
JoinSpace(parts) ==
    IF parts = <<>> THEN <<>>
    ELSE IF Len(parts) = 1 THEN parts[1]
    ELSE parts[1] \o <<" ">> \o JoinSpace(Tail(parts))

\* str(v) as an f-string formats it: None reads "None"
format_str(v) == IF v.ty = "NoneType" THEN <<"N","o","n","e">> ELSE v.val

\* the str literals of the code
OPENALEX == <<"o","p","e","n","a","l","e","x">>
CYBERLENINKA == <<"c","y","b","e","r","l","e","n","i","n","k","a">>
CROSSREF == <<"c","r","o","s","s","r","e","f">>
PUBMED == <<"p","u","b","m","e","d">>
ARXIV == <<"a","r","x","i","v">>
EN == <<"e","n">>
RU == <<"r","u">>

Digits == <<"0","1","2","3","4","5","6","7","8","9">>
IsDigit(c) == \E i \in 1..10 : Digits[i] = c
DigitVal(c) == (CHOOSE i \in 1..10 : Digits[i] = c) - 1

\* int(s) for a str of decimal digits; the caller tests IsNumber first
RECURSIVE ParseDigits(_, _)
ParseDigits(s, acc) ==
    IF s = <<>> THEN acc ELSE ParseDigits(Tail(s), acc * 10 + DigitVal(Head(s)))
IsNumber(s) == s # <<>> /\ \A i \in 1..Len(s) : IsDigit(s[i])

-----------------------------------------------------------------------------
(* json.dumps / json.loads.  A JSON text is kept as its token tree: what   *)
(* json.dumps writes for a value and what json.loads reads back from it.   *)
(* A number token keeps whether its literal has a decimal point, which is  *)
(* what decides between int and float on the way back.                     *)

\* json.dumps(value, ensure_ascii=False, default=str)
RECURSIVE json_dumps(_)
json_dumps(v) ==
    CASE v.ty = "NoneType" -> [j |-> "null"]
      [] v.ty = "bool" -> [j |-> IF v.val THEN "true" ELSE "false"]
      [] v.ty = "int" -> [j |-> "number", digits |-> v.val, point |-> FALSE]
      [] v.ty = "float" -> [j |-> "number", digits |-> v.val, point |-> TRUE]
      [] v.ty = "str" -> [j |-> "string", val |-> v.val]
      [] v.ty = "list" ->
            [j |-> "array", val |-> [i \in DOMAIN v.val |-> json_dumps(v.val[i])]]
      [] v.ty = "dict" ->
            [j |-> "object", val |-> [k \in DOMAIN v.val |-> json_dumps(v.val[k])]]
      [] OTHER -> [j |-> "string", val |-> v.val]     \* default=str

\* json.loads(text)
RECURSIVE json_loads(_)
json_loads(t) ==
    CASE t.j = "null" -> PyNone
      [] t.j = "true" -> PyBool(TRUE)
      [] t.j = "false" -> PyBool(FALSE)
      [] t.j = "number" -> IF t.point THEN PyFloat(t.digits) ELSE PyInt(t.digits)
      [] t.j = "string" -> PyStr(t.val)
      [] t.j = "array" -> PyList([i \in DOMAIN t.val |-> json_loads(t.val[i])])
      [] t.j = "object" -> PyDict([k \in DOMAIN t.val |-> json_loads(t.val[k])])

-----------------------------------------------------------------------------
(* CacheService (cache_service.py).                                        *)

CACHE_PREFIX == "litfinder:"
\* timedelta(hours=1), in seconds
DEFAULT_TTL == 3600
\* timedelta(minutes=30), in seconds
SEARCH_CACHE_TTL == 1800

\* hash_query: the md5 digest is taken to be injective on the normalized text,
\* so the key is the normalized text itself
hash_query(query, filters) ==
    LET normalized == Strip(Lower(query.val))
    IN  IF Truthy(filters)
        THEN <<normalized, ":", json_dumps(filters)>>
        ELSE <<normalized>>

\* CacheService._get_client: the singleton after the call
get_client(c, up) ==
    IF ~c.initialized
    THEN IF up THEN [initialized |-> TRUE, client |-> "redis"]
               ELSE [initialized |-> TRUE, client |-> "None"]
    ELSE c

\* Redis GET: the text under full_key, "nil" when the key is absent or expired
RedisGet(store, full_key) ==
    IF full_key \in DOMAIN store THEN store[full_key].data ELSE [j |-> "nil"]

\* Redis SETEX
RedisSetex(store, full_key, seconds, data) ==
    [k \in DOMAIN store \cup {full_key} |->
        IF k = full_key THEN [data |-> data, ttl |-> seconds] ELSE store[k]]

\* CacheService.get without its except branch: the value is read whether or
\* not the backend answers
cache_get_uncaught(c, up, store, key) ==
    LET c2 == get_client(c, up)
        full_key == <<CACHE_PREFIX, key>>
        value == RedisGet(store, full_key)
    IN  IF value.j # "nil" THEN [cs |-> c2, value |-> json_loads(value)]
        ELSE [cs |-> c2, value |-> PyNone]

\* CacheService.get: [cs, value]
cache_get(c, up, store, key) ==
    LET c2 == get_client(c, up)
        full_key == <<CACHE_PREFIX, key>>
        value == RedisGet(store, full_key)
    IN  IF c2.client = "None" THEN [cs |-> c2, value |-> PyNone]
        ELSE IF ~up THEN [cs |-> c2, value |-> PyNone]          \* except: return None
        ELSE IF value.j # "nil" THEN [cs |-> c2, value |-> json_loads(value)]
        ELSE [cs |-> c2, value |-> PyNone]

\* CacheService.set: [cs, redis, ok]
cache_set(c, up, store, key, value, ttl) ==
    LET c2 == get_client(c, up)
        full_key == <<CACHE_PREFIX, key>>
        serialized == json_dumps(value)
    IN  IF c2.client = "None" THEN [cs |-> c2, redis |-> store, ok |-> FALSE]
        ELSE IF ~up THEN [cs |-> c2, redis |-> store, ok |-> FALSE]
        ELSE IF ttl # 0
             THEN [cs |-> c2, redis |-> RedisSetex(store, full_key, ttl, serialized),
                   ok |-> TRUE]
             ELSE [cs |-> c2,
                   redis |-> RedisSetex(store, full_key, DEFAULT_TTL, serialized),
                   ok |-> TRUE]

\* CacheService.get_search_results
get_search_results(c, up, store, query_hash) ==
    cache_get(c, up, store, <<"search:", query_hash>>)

\* set_search_results that leaves the ttl to the default of set
set_search_results_default_ttl(c, up, store, query_hash, results) ==
    cache_set(c, up, store, <<"search:", query_hash>>, results, 0)
\* CacheService.set_search_results
set_search_results(c, up, store, query_hash, results) ==
    cache_set(c, up, store, <<"search:", query_hash>>, results, SEARCH_CACHE_TTL)

\* the Redis server after `seconds` have passed: ttls run down, expired keys go
RedisAfter(store, seconds) ==
    LET alive == {k \in DOMAIN store : store[k].ttl > seconds}
    IN  [k \in alive |-> [data |-> store[k].data, ttl |-> store[k].ttl - seconds]]

-----------------------------------------------------------------------------
(* RankingService (ranking_service.py).  Signals and scores are floats in  *)
(* units of 1/SCALE; the weights are in hundredths.                        *)

\* WEIGHTS, in hundredths
WEIGHTS ==
    [semantic_similarity |-> 35, keyword_match |-> 20, citation_score |-> 15,
     recency_score |-> 10, open_access |-> 5, source_quality |-> 10,
     language_match |-> 5]

\* the order in which the dict WEIGHTS is iterated
SIGNALS == <<"semantic_similarity", "keyword_match", "citation_score",
             "recency_score", "open_access", "source_quality", "language_match">>

\* datetime.now().year
CurrentYear == 2026

\* math.log1p(n) for the citation counts of the model, in units of 1/SCALE
Log1pTable == <<6931, 10986, 13863, 16094, 17918, 19459, 20794, 21972, 23026,
                23979, 24849, 25649>>
log1p(n) == IF n = 0 THEN 0 ELSE Log1pTable[n]

\* a / b on two floats, in units of 1/SCALE
FloatDiv(a, b) == (a * SCALE) \div b

\* round(x, 4) of a float given in units of 1/(100 * SCALE): to the nearest
\* unit of 1/SCALE, a tie going to the even neighbour
round4(x) ==
    LET q == x \div 100
        r == x % 100
    IN  IF r > 50 \/ (r = 50 /\ q % 2 = 1) THEN q + 1 ELSE q

\* _compute_keyword_match without min(..., 1.0)
compute_keyword_match_uncapped(query, title, abstract) ==
    LET all_words == Split(Lower(query.val))
        query_words == {all_words[i] : i \in {k \in DOMAIN all_words : Len(all_words[k]) > 2}}
        n == Cardinality(query_words)
        text == Lower(format_str(title) \o <<" ">> \o format_str(abstract))
        title_lower == Lower(title.val)
        matches == Cardinality({w \in query_words : Contains(text, w)})
        title_matches == Cardinality({w \in query_words : Contains(title_lower, w)})
        base_score == FloatDiv(matches * SCALE, n * SCALE)
        title_bonus == (FloatDiv(title_matches * SCALE, n * SCALE) * 3) \div 10
    IN  IF n = 0 THEN SCALE \div 2
        ELSE base_score + title_bonus

\* RankingService._compute_keyword_match
compute_keyword_match(query, title, abstract) ==
    LET all_words == Split(Lower(query.val))
        \* set(...) then the filter len(w) > 2
        query_words == {all_words[i] : i \in {k \in DOMAIN all_words : Len(all_words[k]) > 2}}
        n == Cardinality(query_words)
        text == Lower(format_str(title) \o <<" ">> \o format_str(abstract))
        title_lower == Lower(title.val)
        matches == Cardinality({w \in query_words : Contains(text, w)})
        title_matches == Cardinality({w \in query_words : Contains(title_lower, w)})
        base_score == FloatDiv(matches * SCALE, n * SCALE)
        title_bonus == (FloatDiv(title_matches * SCALE, n * SCALE) * 3) \div 10
    IN  IF n = 0 THEN SCALE \div 2
        ELSE Min(base_score + title_bonus, SCALE)

\* RankingService._normalize_citations
normalize_citations(citations, max_citations) ==
    IF citations <= 0 THEN 0
    ELSE LET log_citations == log1p(citations)
             log_max == log1p(max_citations)
         IN  IF log_max > 0 THEN FloatDiv(log_citations, log_max) ELSE 0

\* RankingService._compute_recency
compute_recency(year) ==
    IF ~Truthy(year) THEN (3 * SCALE) \div 10
    ELSE LET age == CurrentYear - year.val
         IN  IF age < 0 THEN SCALE
             ELSE IF age = 0 THEN SCALE
             ELSE IF age <= 2 THEN (9 * SCALE) \div 10
             ELSE IF age <= 5 THEN (7 * SCALE) \div 10
             ELSE IF age <= 10 THEN (5 * SCALE) \div 10
             ELSE Max(SCALE \div 10, (5 * SCALE) \div 10 - ((age - 10) * 2 * SCALE) \div 100)

\* RankingService._source_quality_score
source_quality_score(source) ==
    LET key == Lower(source)
    IN  CASE key = OPENALEX -> (90 * SCALE) \div 100
          [] key = CYBERLENINKA -> (80 * SCALE) \div 100
          [] key = CROSSREF -> (85 * SCALE) \div 100
          [] key = PUBMED -> (95 * SCALE) \div 100
          [] key = ARXIV -> (70 * SCALE) \div 100
          [] OTHER -> (50 * SCALE) \div 100

\* max(r.get("cited_by_count", 0) for r in results) or 1
RECURSIVE MaxCited(_)
MaxCited(results) ==
    IF Len(results) = 1 THEN DictGet(results[1], "cited_by_count", PyInt(0)).val
    ELSE Max(DictGet(results[1], "cited_by_count", PyInt(0)).val, MaxCited(Tail(results)))

\* the normalising count one above the maximum of the batch
max_citations_of_plus_one(results) ==
    LET m == MaxCited(results) + 1 IN IF m # 0 THEN m ELSE 1

max_citations_of(results) ==
    LET m == MaxCited(results) IN IF m # 0 THEN m ELSE 1

\* the body of the scoring loop for one result: the dict `scores`
signals_of(result, query, preferred_language, max_citations) ==
    PyDict(
    [semantic_similarity |-> DictGet(result, "relevance_score", PyFloat(SCALE \div 2)),
     keyword_match |->
        PyFloat(compute_keyword_match(query, DictGet(result, "title", PyStr(<<>>)),
                                      DictGet(result, "abstract", PyStr(<<>>)))),
     citation_score |->
        PyFloat(normalize_citations(DictGet(result, "cited_by_count", PyInt(0)).val,
                                    max_citations)),
     recency_score |-> PyFloat(compute_recency(DictGet(result, "year", PyNone))),
     open_access |->
        PyFloat(IF Truthy(DictGet(result, "open_access", PyNone)) THEN SCALE ELSE 0),
     source_quality |->
        PyFloat(source_quality_score(DictGet(result, "source", PyStr(<<>>)).val)),
     language_match |->
        PyFloat(IF DictGet(result, "language", PyStr(EN)) = preferred_language
                THEN SCALE ELSE SCALE \div 2)])

\* sum(scores.get(signal, 0) * weight for signal, weight in self.weights.items()),
\* in units of 1/(100 * SCALE)
RECURSIVE WeightedSumFrom(_, _)
WeightedSumFrom(scores, i) ==
    IF i > Len(SIGNALS) THEN 0
    ELSE DictGet(scores, SIGNALS[i], PyFloat(0)).val * WEIGHTS[SIGNALS[i]]
         + WeightedSumFrom(scores, i + 1)
\* the weighted sum that leaves out the first signal
weighted_sum_short(scores) == WeightedSumFrom(scores, 2)
weighted_sum(scores) == WeightedSumFrom(scores, 1)

\* one pass of the scoring loop: the result with its score and its signals
score_result(result, query, preferred_language, max_citations) ==
    LET scores == signals_of(result, query, preferred_language, max_citations)
        final_score == weighted_sum(scores)
    IN  DictSet(DictSet(result, "relevance_score", PyFloat(round4(final_score))),
                "ranking_signals", scores)

\* list.sort(key=relevance_score, reverse=True): stable, so equal scores keep
\* the order they had
RECURSIVE InsertByScore(_, _)
InsertByScore(sorted, r) ==
    IF sorted = <<>> THEN <<r>>
    ELSE IF Head(sorted).val.relevance_score.val >= r.val.relevance_score.val
         THEN <<Head(sorted)>> \o InsertByScore(Tail(sorted), r)
         ELSE <<r>> \o sorted
RECURSIVE SortFrom(_, _, _)
SortFrom(items, i, acc) ==
    IF i > Len(items) THEN acc
    ELSE SortFrom(items, i + 1, InsertByScore(acc, items[i]))
\* rank_results without its sort
sort_by_score_skipped(items) == items
sort_by_score(items) == SortFrom(items, 1, <<>>)

\* RankingService.rank_results
rank_results(results, query, preferred_language) ==
    IF results = <<>> THEN <<>>
    ELSE LET max_citations == max_citations_of(results)
             scored_results ==
                 [i \in 1..Len(results) |->
                     score_result(results[i], query, preferred_language, max_citations)]
         IN  sort_by_score(scored_results)

-----------------------------------------------------------------------------
(* The retry loops of the two HTTP clients.  One HTTP attempt ends in an   *)
(* outcome [kind, retry_after]: "ok" (a 2xx answer), "timeout"             *)
(* (httpx.TimeoutException), "429", "4xx" (another client error), "5xx",   *)
(* "error" (any other exception, a refused connection for one) and, for    *)
(* the OAI-PMH client, "oai_error" (a 2xx answer holding an <error>) and   *)
(* "bad_xml" (a 2xx answer that is no XML).  retry_after is the            *)
(* Retry-After header of a 429 answer.                                     *)

\* MAX_RETRIES of openalex.py and of cyberleninka.py
MAX_RETRIES == 3
\* MAX_RETRY_AFTER, seconds
MAX_RETRY_AFTER == 300
\* DEFAULT_RETRY_AFTER, seconds
DEFAULT_RETRY_AFTER == 60

RECURSIVE Pow2(_)
Pow2(n) == IF n = 0 THEN 1 ELSE 2 * Pow2(n - 1)

\* int(s) on a str: [ok, val]; ok is FALSE where Python raises ValueError
py_int(s) ==
    LET t == Strip(s)
        signed == t # <<>> /\ (Head(t) = "-" \/ Head(t) = "+")
        body == IF signed THEN Tail(t) ELSE t
    IN  IF IsNumber(body)
        THEN [ok |-> TRUE,
              val |-> IF signed /\ Head(t) = "-" THEN 0 - ParseDigits(body, 0)
                      ELSE ParseDigits(body, 0)]
        ELSE [ok |-> FALSE, val |-> 0]

\* retry_after_delay without the cap of MAX_RETRY_AFTER
retry_after_delay_uncapped(hdr) ==
    LET parsed == IF Truthy(hdr) THEN py_int(hdr.val)
                  ELSE [ok |-> TRUE, val |-> DEFAULT_RETRY_AFTER]
    IN  IF ~parsed.ok THEN DEFAULT_RETRY_AFTER
        ELSE IF parsed.val <= 0 THEN DEFAULT_RETRY_AFTER
        ELSE parsed.val

\* openalex.py, the delay slept on a 429 answer with Retry-After header hdr
retry_after_delay(hdr) ==
    LET parsed == IF Truthy(hdr) THEN py_int(hdr.val)
                  ELSE [ok |-> TRUE, val |-> DEFAULT_RETRY_AFTER]
        retry_after == IF ~parsed.ok THEN DEFAULT_RETRY_AFTER
                       ELSE IF parsed.val <= 0 THEN DEFAULT_RETRY_AFTER
                       ELSE parsed.val
    IN  IF retry_after > MAX_RETRY_AFTER THEN MAX_RETRY_AFTER ELSE retry_after

\* OpenAlexClient._request, the body of the loop for attempt number `attempt`
\* (from 0): what ends it and what it sleeps
openalex_attempt(attempt, out) ==
    CASE out.kind = "429" ->
            [next |-> "continue", sleep |-> <<retry_after_delay(out.retry_after)>>]
      [] out.kind = "ok" -> [next |-> "return", sleep |-> <<>>]
      [] out.kind = "timeout" ->
            IF attempt < MAX_RETRIES - 1
            THEN [next |-> "continue", sleep |-> <<Pow2(attempt)>>]
            ELSE [next |-> "raise", sleep |-> <<>>]
      [] out.kind = "4xx" -> [next |-> "raise", sleep |-> <<>>]
      [] out.kind = "5xx" ->
            IF attempt < MAX_RETRIES - 1
            THEN [next |-> "continue", sleep |-> <<Pow2(attempt)>>]
            ELSE [next |-> "raise", sleep |-> <<>>]
      [] OTHER -> [next |-> "raise", sleep |-> <<>>]

\* a loop body that retries every HTTP error, a client error included
cyberleninka_attempt_retry_all(attempt, out) ==
    CASE out.kind = "ok" -> [next |-> "return", sleep |-> <<>>]
      [] out.kind \in {"timeout", "429", "4xx", "5xx"} ->
            IF attempt < MAX_RETRIES - 1
            THEN [next |-> "continue", sleep |-> <<Pow2(attempt)>>]
            ELSE [next |-> "return_none", sleep |-> <<>>]
      [] OTHER -> [next |-> "return_none", sleep |-> <<>>]
\* CyberLeninkaClient._request, the body of the loop for one attempt
cyberleninka_attempt(attempt, out) ==
    CASE out.kind = "ok" -> [next |-> "return", sleep |-> <<>>]
      [] out.kind = "oai_error" -> [next |-> "return_none", sleep |-> <<>>]
      [] out.kind = "timeout" ->
            IF attempt < MAX_RETRIES - 1
            THEN [next |-> "continue", sleep |-> <<Pow2(attempt)>>]
            ELSE [next |-> "return_none", sleep |-> <<>>]
      [] out.kind \in {"429", "4xx", "5xx"} ->
            IF out.kind = "5xx" /\ attempt < MAX_RETRIES - 1
            THEN [next |-> "continue", sleep |-> <<Pow2(attempt)>>]
            ELSE [next |-> "return_none", sleep |-> <<>>]
      [] out.kind = "bad_xml" -> [next |-> "return_none", sleep |-> <<>>]
      [] OTHER -> [next |-> "raise", sleep |-> <<>>]

\* the loop `for attempt in range(MAX_RETRIES)` of either client, run on the
\* outcomes outs[1], outs[2], ... of its attempts; falling out of the loop is
\* "after_loop"
RECURSIVE request_loop(_, _, _, _)
request_loop(client, outs, attempt, sleeps) ==
    IF attempt >= MAX_RETRIES
    THEN [end |-> "after_loop", attempts |-> attempt, sleeps |-> sleeps]
    ELSE LET step == IF client = "openalex"
                     THEN openalex_attempt(attempt, outs[attempt + 1])
                     ELSE cyberleninka_attempt(attempt, outs[attempt + 1])
         IN  IF step.next = "continue"
             THEN request_loop(client, outs, attempt + 1, sleeps \o step.sleep)
             ELSE [end |-> step.next, attempts |-> attempt + 1, sleeps |-> sleeps]

\* what a finished _request call hands its caller: "json" / "root" (the parsed
\* answer), "None", or "raise"
request_result(client, end) ==
    IF client = "openalex"
    THEN (IF end = "return" THEN "json" ELSE "raise")   \* after the loop: raise
    ELSE (CASE end = "return" -> "root"
            [] end = "raise" -> "raise"
            [] OTHER -> "None")                          \* after the loop: return None

-----------------------------------------------------------------------------
(* The two providers.  `upstream` names what each of them holds during a   *)
(* behaviour: for OpenAlex a list of work objects, best match first, and   *)
(* whether its answers carry meta.count; for CyberLeninka the <record>     *)
(* elements of a ListRecords answer, in harvest order.                     *)

OPENALEX_ID_PREFIX == <<"h","t","t","p","s",":","/","/","o","p","e","n","a","l","e","x",".","o","r","g","/">>
CYBERLENINKA_ID_PREFIX == <<"o","a","i",":","c","y","b","e","r","l","e","n","i","n","k","a",".","r","u",":">>

\* str.replace(old, ""): every occurrence of old is cut out, left to right
RECURSIVE Remove(_, _)
Remove(s, old) ==
    IF Len(s) < Len(old) \/ old = <<>> THEN s
    ELSE IF SubSeq(s, 1, Len(old)) = old
         THEN Remove(SubSeq(s, Len(old) + 1, Len(s)), old)
         ELSE <<Head(s)>> \o Remove(Tail(s), old)

\* a work object of the OpenAlex /works answer
WorkItem(id, display_name, publication_year, abstract_inverted_index, cited_by_count, open_access, biblio) ==
    PyDict([id |-> id, display_name |-> display_name,
            publication_year |-> publication_year,
            abstract_inverted_index |-> abstract_inverted_index,
            cited_by_count |-> cited_by_count, open_access |-> open_access,
            biblio |-> biblio])

W1 == WorkItem(PyStr(OPENALEX_ID_PREFIX \o <<"W","1">>), PyStr(<<"R","N","A"," ","v","i","r","u","s">>),
               PyInt(2024), PyNone, PyInt(10),
               PyDict([is_oa |-> PyBool(TRUE)]),
               PyDict([volume |-> PyStr(<<"1","2">>)]))
W2 == WorkItem(PyStr(OPENALEX_ID_PREFIX \o <<"W","2">>), PyStr(<<"V","i","r","u","s"," ","R","N","A">>),
               PyInt(1990),
               PyList(<<[word |-> <<"r","n","a">>, positions |-> <<1>>],
                        [word |-> <<"a","b","o","u","t">>, positions |-> <<0>>]>>),
               PyInt(0), PyDict([is_oa |-> PyBool(TRUE)]), PyNone)
W3 == WorkItem(PyStr(OPENALEX_ID_PREFIX \o <<"W","3">>), PyStr(<<"C","e","l","l","s">>),
               PyInt(2010), PyNone, PyInt(3), PyNone, PyNone)
\* an object without "id": OpenAlexWork(**item) raises a ValidationError
WBAD == WorkItem(PyNone, PyStr(<<"C","e","l","l","s">>), PyNone, PyNone, PyInt(1), PyNone, PyNone)
\* biblio.volume is a JSON number: it passes validation (biblio: Optional[dict])
WODD == WorkItem(PyStr(OPENALEX_ID_PREFIX \o <<"W","4">>), PyStr(<<"R","N","A"," ","v","i","r","u","s">>),
                 PyInt(2020), PyNone, PyInt(2), PyNone,
                 PyDict([volume |-> PyInt(7)]))

OpenAlexHoldings ==
    [o1 |-> [works |-> <<W2, W1, W3>>, has_count |-> TRUE],
     o2 |-> [works |-> <<WBAD, W2>>, has_count |-> TRUE],
     o3 |-> [works |-> <<W2>>, has_count |-> FALSE],
     o4 |-> [works |-> <<>>, has_count |-> TRUE],
     o5 |-> [works |-> <<WODD, W1>>, has_count |-> TRUE],
     o6 |-> [works |-> <<WBAD>>, has_count |-> TRUE]]

\* a <record> of the OAI-PMH answer: the text of header/identifier and of the
\* Dublin Core elements (PyNone where the element is missing or empty)
OaiRecord(identifier, title, description, subjects, creators, date, language) ==
    [identifier |-> identifier, title |-> title, description |-> description,
     subjects |-> subjects, creators |-> creators, date |-> date,
     language |-> language]

A1 == OaiRecord(PyStr(CYBERLENINKA_ID_PREFIX \o <<"a","1">>), PyStr(<<"R","N","A"," ","v","i","r","u","s"," ","s","t","u","d","y">>),
                PyNone, <<>>, <<<<"I","v","a","n","o","v"," ","I",".","I",".">>>>, PyNone, PyNone)
A2 == OaiRecord(PyStr(CYBERLENINKA_ID_PREFIX \o <<"a","2">>), PyStr(<<"C","e","l","l","s">>),
                PyNone, <<<<"r","n","a">>>>, <<>>, PyStr(<<"2","0","1","9">>), PyStr(RU))
A3 == OaiRecord(PyStr(CYBERLENINKA_ID_PREFIX \o <<"a","3">>), PyStr(<<"N","o","t","e","s">>),
                PyStr(<<"r","n","a"," ","v","i","r","u","s">>), <<>>, <<>>, PyStr(<<"2","0","2","0","-","0","5">>), PyStr(EN))
\* a record without header/identifier: _parse_record returns None
XBAD == OaiRecord(PyNone, PyStr(<<"R","N","A"," ","v","i","r","u","s"," ","s","t","u","d","y">>), PyNone, <<>>, <<>>, PyNone, PyNone)

CyberLeninkaHoldings ==
    [c1 |-> <<A1, A2, A3>>,
     c2 |-> <<XBAD, A3>>,
     c3 |-> <<>>]

\* the states of the two providers the model starts from
Upstreams ==
    {[oa |-> "o1", cl |-> "c1"], [oa |-> "o2", cl |-> "c2"],
     [oa |-> "o3", cl |-> "c3"], [oa |-> "o4", cl |-> "c3"],
     [oa |-> "o5", cl |-> "c1"], [oa |-> "o4", cl |-> "c1"],
     [oa |-> "o6", cl |-> "c3"]}

\* the continuation token OpenAlex hands out with a non-empty cursor page
NEXT_TOKEN == <<"c","2">>

\* GET /works as OpenAlex answers it: the page asked for, meta.count when the
\* provider reports it, and in cursor mode meta.next_cursor (null once a page
\* comes back empty)
openalex_api(holding, params) ==
    LET works == holding.works
        per_page == params.per_page
        start == IF "cursor" \in DOMAIN params THEN 0
                 ELSE (params.page - 1) * per_page
        page == SubSeq(works, start + 1, Min(start + per_page, Len(works)))
        count == IF holding.has_count THEN [count |-> PyInt(Len(works))]
                 ELSE [x \in {} |-> PyNone]
        meta == IF "cursor" \in DOMAIN params
                THEN [k \in DOMAIN count \cup {"next_cursor"} |->
                        IF k = "next_cursor"
                        THEN (IF page = <<>> THEN PyNone ELSE PyStr(NEXT_TOKEN))
                        ELSE count[k]]
                ELSE count
    IN  PyDict([meta |-> PyDict(meta), results |-> PyList(page)])

\* OpenAlexWork(**item): [ok, work]; validation fails without a str id
OpenAlexWork(item) ==
    [ok |-> DictGet(item, "id", PyNone).ty = "str"
            /\ DictGet(item, "cited_by_count", PyInt(0)).ty = "int",
     work |-> item]

\* OpenAlexWork.get_abstract
RECURSIVE WordsOfIndex(_)
WordsOfIndex(entries) ==
    IF entries = <<>> THEN <<>>
    ELSE [i \in 1..Len(Head(entries).positions) |->
            [pos |-> Head(entries).positions[i], word |-> Head(entries).word]]
         \o WordsOfIndex(Tail(entries))
RECURSIVE InsertByPos(_, _)
InsertByPos(sorted, w) ==
    IF sorted = <<>> THEN <<w>>
    ELSE IF Head(sorted).pos <= w.pos
         THEN <<Head(sorted)>> \o InsertByPos(Tail(sorted), w)
         ELSE <<w>> \o sorted
RECURSIVE SortByPosFrom(_, _, _)
SortByPosFrom(ws, i, acc) ==
    IF i > Len(ws) THEN acc ELSE SortByPosFrom(ws, i + 1, InsertByPos(acc, ws[i]))
get_abstract(work) ==
    LET index == DictGet(work, "abstract_inverted_index", PyNone)
    IN  IF ~Truthy(index) THEN PyNone
        ELSE LET words == SortByPosFrom(WordsOfIndex(index.val), 1, <<>>)
             IN  PyStr(JoinSpace([i \in 1..Len(words) |-> words[i].word]))

\* work_to_article_dict: [raised, value]; volume.isdigit() raises
\* AttributeError on a volume that is truthy and no str
work_to_article_dict(work) ==
    LET volume_of(biblio) ==
            IF Truthy(biblio) THEN DictGet(biblio, "volume", PyNone) ELSE PyNone
        is_oa_of(open_access) ==
            IF Truthy(open_access)
            THEN DictGet(open_access, "is_oa", PyBool(FALSE)) ELSE PyBool(FALSE)
        title_of(display_name, title) ==
            IF Truthy(display_name) THEN display_name
            ELSE IF Truthy(title) THEN title ELSE PyStr(<<>>)
        converted(volume) ==
            IF Truthy(volume) /\ volume.ty # "str"
            THEN [raised |-> TRUE, value |-> PyNone]
            ELSE [raised |-> FALSE,
                  value |-> PyDict(
                    [source |-> PyStr(OPENALEX),
                     external_id |-> PyStr(Remove(work.val.id.val, OPENALEX_ID_PREFIX)),
                     title |-> title_of(DictGet(work, "display_name", PyNone),
                                        DictGet(work, "title", PyNone)),
                     year |-> DictGet(work, "publication_year", PyNone),
                     volume |-> IF Truthy(volume) /\ IsNumber(volume.val)
                                THEN PyInt(ParseDigits(volume.val, 0)) ELSE PyNone,
                     abstract |-> get_abstract(work),
                     cited_by_count |-> DictGet(work, "cited_by_count", PyInt(0)),
                     open_access |-> is_oa_of(DictGet(work, "open_access", PyNone)),
                     language |-> PyStr(EN)])]
    IN  converted(volume_of(DictGet(work, "biblio", PyNone)))

\* OpenAlexClient.search_works on the outcomes `outs` of its HTTP attempts:
\* [raised, value, http]
search_works(holding, outs, per_page, page, cursor) ==
    LET paging == IF Truthy(cursor) THEN [cursor |-> cursor.val]
                  ELSE IF Truthy(page) THEN [page |-> page.val]
                  ELSE [page |-> 1]
        params == [k \in DOMAIN paging \cup {"per_page"} |->
                     IF k = "per_page" THEN Min(per_page, 200) ELSE paging[k]]
        parsed(items) ==
            SelectSeq([i \in 1..Len(items) |-> OpenAlexWork(items[i])], LAMBDA w : w.ok)
        unwrapped(works) == PyList([i \in 1..Len(works) |-> works[i].work])
        built(http, meta, results) ==
            IF "next_cursor" \in DOMAIN meta.val
            THEN \* the debug line slices response['next_cursor']: a null one raises
                 IF meta.val.next_cursor.ty = "NoneType"
                 THEN [raised |-> TRUE, value |-> PyNone, http |-> http]
                 ELSE [raised |-> FALSE, http |-> http,
                       value |-> PyDict([meta |-> meta, results |-> results,
                                         next_cursor |-> meta.val.next_cursor])]
            ELSE [raised |-> FALSE, http |-> http,
                  value |-> PyDict([meta |-> meta, results |-> results])]
        answered(http, result) ==
            built(http, DictGet(result, "meta", PyDict([x \in {} |-> PyNone])),
                  unwrapped(parsed(DictGet(result, "results", PyList(<<>>)).val)))
        requested(http) ==
            IF request_result("openalex", http.end) = "raise"
            THEN [raised |-> TRUE, value |-> PyNone, http |-> http]
            ELSE answered(http, openalex_api(holding, params))
    IN  requested(request_loop("openalex", outs, 0, <<>>))

\* the loop of _search_openalex over the works: [raised, articles]
RECURSIVE convert_works(_, _)
convert_works(works, acc) ==
    IF works = <<>> THEN [raised |-> FALSE, articles |-> acc]
    ELSE LET d == work_to_article_dict(Head(works))
         IN  IF d.raised THEN [raised |-> TRUE, articles |-> acc]
             ELSE convert_works(Tail(works),
                     Append(acc, DictSet(d.value, "relevance_score",
                                         PyFloat((9 * SCALE) \div 10))))

\* an except branch that reports its failure as a total of -1
FAILED_SOURCE_RESULT == PyDict([total |-> PyInt(0 - 1), results |-> PyList(<<>>)])
\* the dict _search_openalex returns from its except branch
EMPTY_SOURCE_RESULT == PyDict([total |-> PyInt(0), results |-> PyList(<<>>)])

\* SearchService._search_openalex: [res, http, client_ok]
search_openalex(r, holding, outs) ==
    LET page == IF Truthy(r.cursor) THEN PyNone
                ELSE PyInt((r.offset.val \div r.limit.val) + 1)
        response0(got, articles) ==
            PyDict([total |-> DictGet(DictGet(got.value, "meta",
                                              PyDict([x \in {} |-> PyNone])),
                                      "count", PyInt(0)),
                    results |-> PyList(articles)])
        returned(got, conv) ==
            IF conv.raised
            THEN [res |-> EMPTY_SOURCE_RESULT, http |-> got.http, client_ok |-> TRUE]
            ELSE [res |-> IF "next_cursor" \in DOMAIN got.value.val
                          THEN DictSet(response0(got, conv.articles), "next_cursor",
                                       got.value.val.next_cursor)
                          ELSE response0(got, conv.articles),
                  http |-> got.http, client_ok |-> TRUE]
        handled(got) ==
            IF got.raised
            THEN [res |-> EMPTY_SOURCE_RESULT, http |-> got.http, client_ok |-> FALSE]
            ELSE returned(got, convert_works(
                                  DictGet(got.value, "results", PyList(<<>>)).val, <<>>))
    IN  handled(search_works(holding, outs, r.limit.val, page, r.cursor))

\* CyberLeninkaClient._parse_record: the article, or PyNone
parse_record(record) ==
    IF ~Truthy(record.identifier) THEN PyNone
    ELSE PyDict([identifier |-> record.identifier, title |-> record.title,
                 description |-> record.description,
                 subjects |-> PyList([i \in 1..Len(record.subjects) |->
                                        PyStr(record.subjects[i])]),
                 creators |-> PyList([i \in 1..Len(record.creators) |->
                                        PyStr(record.creators[i])]),
                 date |-> record.date, language |-> record.language])

\* v or "" on an Optional[str]
OrEmpty(v) == IF Truthy(v) THEN v.val ELSE <<>>

\* the text CyberLeninkaClient.search filters on
searchable_of(article) ==
    LET subjects == article.val.subjects.val
        creators == article.val.creators.val
    IN  Lower(JoinSpace(<<OrEmpty(article.val.title),
                          OrEmpty(article.val.description),
                          JoinSpace([i \in 1..Len(subjects) |-> subjects[i].val]),
                          JoinSpace([i \in 1..Len(creators) |-> creators[i].val])>>))

\* the loop of CyberLeninkaClient.search over the records, with its break
RECURSIVE filter_records(_, _, _, _)
filter_records(records, query_lower, limit, articles) ==
    IF records = <<>> THEN articles
    ELSE LET article == parse_record(Head(records))
         IN  IF article = PyNone
             THEN filter_records(Tail(records), query_lower, limit, articles)
             ELSE IF Contains(searchable_of(article), query_lower)
             THEN (IF Len(articles) + 1 >= limit
                   THEN Append(articles, article)
                   ELSE filter_records(Tail(records), query_lower, limit,
                                       Append(articles, article)))
             ELSE filter_records(Tail(records), query_lower, limit, articles)

\* CyberLeninkaClient.search reporting the number of harvested records as total
cyberleninka_search_total_harvested(records, outs, query, limit) ==
    LET found(http, articles) ==
            [raised |-> FALSE, http |-> http,
             value |-> PyDict([total |-> PyInt(Len(records)),
                               results |-> PyList(articles)])]
        answered(http, root) ==
            IF root = "raise" THEN [raised |-> TRUE, value |-> PyNone, http |-> http]
            ELSE IF root = "None"
            THEN [raised |-> FALSE, http |-> http,
                  value |-> PyDict([total |-> PyInt(0), results |-> PyList(<<>>)])]
            ELSE found(http, filter_records(records, Lower(query.val), limit, <<>>))
        requested(http) == answered(http, request_result("cyberleninka", http.end))
    IN  requested(request_loop("cyberleninka", outs, 0, <<>>))

\* CyberLeninkaClient.search: [raised, value, http]
cyberleninka_search(records, outs, query, limit) ==
    LET found(http, articles) ==
            [raised |-> FALSE, http |-> http,
             value |-> PyDict([total |-> PyInt(Len(articles)),
                               results |-> PyList(articles)])]
        answered(http, root) ==
            IF root = "raise" THEN [raised |-> TRUE, value |-> PyNone, http |-> http]
            ELSE IF root = "None"
            THEN [raised |-> FALSE, http |-> http,
                  value |-> PyDict([total |-> PyInt(0), results |-> PyList(<<>>)])]
            ELSE found(http, filter_records(records, Lower(query.val), limit, <<>>))
        requested(http) == answered(http, request_result("cyberleninka", http.end))
    IN  requested(request_loop("cyberleninka", outs, 0, <<>>))

\* CyberLeninkaArticle.get_year
get_year(article) ==
    LET year_of(parsed) == IF parsed.ok THEN PyInt(parsed.val) ELSE PyNone
        first4(date) == SubSeq(date, 1, Min(4, Len(date)))
    IN  IF ~Truthy(article.val.date) THEN PyNone
        ELSE year_of(py_int(first4(article.val.date.val)))

\* article_to_dict of cyberleninka.py
article_to_dict(article) ==
    PyDict([source |-> PyStr(CYBERLENINKA),
            external_id |-> PyStr(Remove(article.val.identifier.val,
                                         CYBERLENINKA_ID_PREFIX)),
            title |-> PyStr(OrEmpty(article.val.title)),
            year |-> get_year(article),
            volume |-> PyNone,
            abstract |-> article.val.description,
            cited_by_count |-> PyInt(0),
            open_access |-> PyBool(TRUE),
            language |-> IF Truthy(article.val.language) THEN article.val.language
                         ELSE PyStr(RU)])

\* SearchService._search_cyberleninka: [res, http, client_ok]
search_cyberleninka(r, records, outs) ==
    LET converted(found) ==
            [i \in 1..Len(found) |->
                DictSet(article_to_dict(found[i]), "relevance_score",
                        PyFloat((8 * SCALE) \div 10))]
        handled(got) ==
            IF got.raised
            THEN [res |-> EMPTY_SOURCE_RESULT, http |-> got.http, client_ok |-> FALSE]
            ELSE [res |-> PyDict([total |-> DictGet(got.value, "total", PyInt(0)),
                                  results |-> PyList(converted(
                                      DictGet(got.value, "results", PyList(<<>>)).val))]),
                  http |-> got.http, client_ok |-> TRUE]
    IN  handled(cyberleninka_search(records, outs, r.query, r.limit.val))

-----------------------------------------------------------------------------
(* SearchService.search (search_service.py).                               *)

EmptyMap == [k \in {} |-> PyNone]

\* the arguments of one search() call, as POST /search passes them
\* (api/search.py: filters left at their defaults, use_cache never passed)
Request(query, limit, offset, cursor, sources) ==
    [query |-> query, limit |-> PyInt(limit), offset |-> PyInt(offset),
     cursor |-> cursor, year_from |-> PyNone, year_to |-> PyNone,
     language |-> PyList(<<PyStr(RU), PyStr(EN)>>),
     cited_by_count_min |-> PyNone, cited_by_count_max |-> PyNone,
     is_oa |-> PyNone, publication_type |-> PyNone, sources |-> sources,
     use_cache |-> PyBool(TRUE)]

Queries == {PyStr(<<"R","N","A"," ","v","i","r","u","s">>)}
Limits == {2}
Offsets == {0}
Cursors == {PyNone, PyStr(<<>>), PyStr(<<"*">>)}
SourceSets == {PyNone, PyList(<<PyStr(OPENALEX)>>), PyList(<<PyStr(CYBERLENINKA)>>)}

\* the outcomes the HTTP attempts of one adapter call may have
OpenAlexOutcomes == {"ok", "timeout", "429", "4xx"}
CyberLeninkaOutcomes == {"ok", "timeout", "5xx", "oai_error"}
Outcome(kind) == [kind |-> kind, retry_after |-> PyNone]
\* the outcomes of the attempts of one call, from their kinds
Outcomes(kinds) == [i \in 1..MAX_RETRIES |-> Outcome(kinds[i])]

\* the dict search() hands to hash_query
filters_of(r) ==
    PyDict([limit |-> r.limit, offset |-> r.offset, year_from |-> r.year_from,
            year_to |-> r.year_to, language |-> r.language,
            cited_by_count_min |-> r.cited_by_count_min,
            cited_by_count_max |-> r.cited_by_count_max, is_oa |-> r.is_oa,
            publication_type |-> r.publication_type, sources |-> r.sources])

cache_key_of(r) == hash_query(r.query, filters_of(r))

\* the cache check without its cursor test
cache_eligible_any_cursor(r) == Truthy(r.use_cache)
\* use_cache and not cursor
cache_eligible(r) == Truthy(r.use_cache) /\ ~Truthy(r.cursor)

\* sources or ["openalex", "cyberleninka"]
search_sources(r) ==
    IF Truthy(r.sources) THEN r.sources.val
    ELSE <<PyStr(OPENALEX), PyStr(CYBERLENINKA)>>

\* x in list
InList(x, list) == \E i \in 1..Len(list) : list[i] = x

\* the coroutines appended to `tasks`, in order
tasks_of(r) ==
    (IF InList(PyStr(OPENALEX), search_sources(r)) THEN <<"openalex">> ELSE <<>>)
    \o (IF InList(PyStr(CYBERLENINKA), search_sources(r)) THEN <<"cyberleninka">> ELSE <<>>)

NoTask == [st |-> "absent", res |-> PyNone, timed_out |-> FALSE, client_ok |-> FALSE]
\* a task object that was never handed to the event loop
UnscheduledTask == [st |-> "unscheduled", res |-> PyNone, timed_out |-> FALSE, client_ok |-> FALSE]

PendingTask == [st |-> "pending", res |-> PyNone, timed_out |-> FALSE, client_ok |-> FALSE]

\* every attempt of a finished _request call was made and timed out
all_timed_out(outs, http) ==
    http.attempts = MAX_RETRIES /\ \A i \in 1..http.attempts : outs[i].kind = "timeout"

DoneTask(run, outs) ==
    [st |-> "done", res |-> run.res, timed_out |-> all_timed_out(outs, run.http),
     client_ok |-> run.client_ok]

\* the results in the order the tasks finished in (asyncio.as_completed)
gather_as_completed(tasks, finished, result_of) ==
    [i \in 1..Len(finished) |-> result_of[finished[i]]]

\* asyncio.gather(*tasks, return_exceptions=True): the results in the order of
\* `tasks`, whatever the order the tasks finished in
gather(tasks, finished, result_of) == [i \in 1..Len(tasks) |-> result_of[tasks[i]]]

\* the loop over source_results: [results, total, next_cursor]
RECURSIVE merge_from(_, _, _)
merge_from(source_results, i, acc) ==
    IF i > Len(source_results) THEN acc
    ELSE LET res == source_results[i]
         IN  IF ~Truthy(res) THEN merge_from(source_results, i + 1, acc)
             ELSE merge_from(source_results, i + 1,
                    [results |-> acc.results \o DictGet(res, "results", PyList(<<>>)).val,
                     total |-> acc.total + DictGet(res, "total", PyInt(0)).val,
                     next_cursor |->
                        IF ~Truthy(acc.next_cursor)
                           /\ Truthy(DictGet(res, "next_cursor", PyNone))
                        THEN res.val.next_cursor ELSE acc.next_cursor])
\* merge that hands out the continuation token whatever the sources returned
merge_with_token(source_results) ==
    [merge_from(source_results, 1, [results |-> <<>>, total |-> 0, next_cursor |-> PyNone])
        EXCEPT !.next_cursor = PyStr(NEXT_TOKEN)]

\* merge that stops after the first task's result
merge_first_only(source_results) ==
    merge_from(SubSeq(source_results, 1, Min(1, Len(source_results))), 1,
               [results |-> <<>>, total |-> 0, next_cursor |-> PyNone])
merge(source_results) ==
    merge_from(source_results, 1,
               [results |-> <<>>, total |-> 0, next_cursor |-> PyNone])

\* results[:limit]
Take(seq, n) == SubSeq(seq, 1, Min(Max(n, 0), Len(seq)))

\* language[0] if language else "en"
preferred_language_of(r) == IF Truthy(r.language) THEN r.language.val[1] ELSE PyStr(EN)

\* the ranked list search() works with after the call of rank_results
ranked_of(r, merged) ==
    IF merged.results # <<>>
    THEN rank_results(merged.results, r.query, preferred_language_of(r))
    ELSE merged.results

\* the response with `results[:limit] or None` for its results
response_of_null_results(r, merged, results) ==
    PyDict([total |-> PyInt(merged.total),
            results |-> IF Take(results, r.limit.val) = <<>> THEN PyNone
                        ELSE PyList(Take(results, r.limit.val)),
            next_cursor |-> merged.next_cursor,
            execution_time_ms |-> PyInt(ElapsedMissMs),
            from_cache |-> PyBool(FALSE)])

\* the dict `response` search() builds on a cache miss
response_of(r, merged, results) ==
    PyDict([total |-> PyInt(merged.total),
            results |-> PyList(Take(results, r.limit.val)),
            next_cursor |-> merged.next_cursor,
            execution_time_ms |-> PyInt(ElapsedMissMs),
            from_cache |-> PyBool(FALSE)])

\* the cache write without the test `and results`
cache_storable_empty_too(r, results) ==
    Truthy(r.use_cache) /\ ~Truthy(r.cursor)

\* the cache write with its cursor test inverted
cache_storable_cursor_only(r, results) ==
    Truthy(r.use_cache) /\ results # <<>> /\ Truthy(r.cursor)
\* use_cache and results and not cursor
cache_storable(r, results) ==
    Truthy(r.use_cache) /\ results # <<>> /\ ~Truthy(r.cursor)

Idle == [idle |-> TRUE]
NoCall == [st |-> "none"]

\* search(), from its start to the await of asyncio.gather, or to its return
\* on a cache hit
SearchStart(query, limit, offset, cursor, sources) ==
    /\ pc = "idle"
    /\ nreq < MaxRequests
    /\ LET r == Request(query, limit, offset, cursor, sources)
           got == get_search_results(cs, redisUp, redis, cache_key_of(r))
           hit == cache_eligible(r) /\ Truthy(got.value)
           tasks == tasks_of(r)
       IN  /\ req' = r
           /\ nreq' = nreq + 1
           /\ cs' = IF cache_eligible(r) THEN got.cs ELSE cs
           /\ cacheOps' = [get |-> IF cache_eligible(r) THEN 1 ELSE 0, set |-> 0]
           /\ prior' = IF cache_key_of(r) \notin DOMAIN stored THEN "none"
                       ELSE IF stored[cache_key_of(r)].resp.val.results.val = <<>>
                       THEN "empty" ELSE "results"
           /\ phases' = (IF cache_eligible(r) THEN <<"CACHE_CHECK">> ELSE <<>>)
                         \o (IF ~hit /\ tasks # <<>> THEN <<"FANOUT">> ELSE <<>>)
           /\ IF hit
              THEN /\ response' = DictSet(DictSet(got.value, "from_cache", PyBool(TRUE)),
                                          "execution_time_ms", PyInt(0))
                   /\ pc' = "done"
                   /\ oa' = NoTask
                   /\ cl' = NoTask
              ELSE /\ response' = PyNone
                   /\ pc' = "gather"
                   /\ oa' = IF InList("openalex", tasks) THEN PendingTask ELSE NoTask
                   /\ cl' = IF InList("cyberleninka", tasks) THEN PendingTask ELSE NoTask
    /\ order' = <<>>
    /\ ranked' = <<>>
    /\ UNCHANGED <<upstream, redisUp, redis, stored, call>>

\* the task of _search_openalex, run to its return
OpenAlexTask ==
    /\ pc = "gather"
    /\ oa.st = "pending"
    /\ \E kinds \in [1..MAX_RETRIES -> OpenAlexOutcomes] :
          oa' = DoneTask(search_openalex(req, OpenAlexHoldings[upstream.oa],
                                         Outcomes(kinds)),
                         Outcomes(kinds))
    /\ order' = Append(order, "openalex")
    /\ UNCHANGED <<upstream, redisUp, redis, cs, pc, req, cl, ranked, response,
                   cacheOps, stored, prior, phases, nreq, call>>

\* the task of _search_cyberleninka, run to its return
CyberLeninkaTask ==
    /\ pc = "gather"
    /\ cl.st = "pending"
    /\ \E kinds \in [1..MAX_RETRIES -> CyberLeninkaOutcomes] :
          cl' = DoneTask(search_cyberleninka(req, CyberLeninkaHoldings[upstream.cl],
                                             Outcomes(kinds)),
                         Outcomes(kinds))
    /\ order' = Append(order, "cyberleninka")
    /\ UNCHANGED <<upstream, redisUp, redis, cs, pc, req, oa, ranked, response,
                   cacheOps, stored, prior, phases, nreq, call>>

\* search(), from the return of asyncio.gather to its own return
SearchFinish ==
    /\ pc = "gather"
    /\ oa.st # "pending"
    /\ cl.st # "pending"
    /\ LET tasks == tasks_of(req)
           result_of == [openalex |-> oa.res, cyberleninka |-> cl.res]
           source_results == IF tasks # <<>> THEN gather(tasks, order, result_of) ELSE <<>>
           merged == merge(source_results)
           results == ranked_of(req, merged)
           resp == response_of(req, merged, results)
           key == cache_key_of(req)
           put == set_search_results(cs, redisUp, redis, key, resp)
       IN  /\ ranked' = results
           /\ response' = resp
           /\ phases' = phases
                         \o (IF tasks # <<>> THEN <<"MERGE">> ELSE <<>>)
                         \o (IF merged.results # <<>> THEN <<"RANK">> ELSE <<>>)
                         \o (IF cache_storable(req, results)
                             THEN <<"CACHE_STORE">> ELSE <<>>)
           /\ IF cache_storable(req, results)
              THEN /\ cs' = put.cs
                   /\ redis' = put.redis
                   /\ cacheOps' = [cacheOps EXCEPT !.set = 1]
              ELSE UNCHANGED <<cs, redis, cacheOps>>
           /\ stored' = IF ~Truthy(req.cursor)
                        THEN [k \in DOMAIN stored \cup {key} |->
                                IF k = key THEN [resp |-> resp, age |-> 0]
                                ELSE stored[k]]
                        ELSE stored
    /\ pc' = "done"
    /\ UNCHANGED <<upstream, redisUp, req, oa, cl, order, prior, nreq, call>>

\* the caller has the response; the service waits for the next call
SearchReturn ==
    /\ pc = "done"
    /\ pc' = "idle"
    /\ req' = Idle
    /\ oa' = NoTask
    /\ cl' = NoTask
    /\ order' = <<>>
    /\ ranked' = <<>>
    /\ response' = PyNone
    /\ cacheOps' = [get |-> 0, set |-> 0]
    /\ prior' = "none"
    /\ phases' = <<>>
    /\ UNCHANGED <<upstream, redisUp, redis, cs, stored, nreq, call>>

\* TickSeconds pass between two calls: Redis expires what has run out.
\* An entry of `stored` leaves it when it is SEARCH_CACHE_TTL old.
Tick ==
    /\ pc = "idle"
    /\ DOMAIN redis # {} \/ DOMAIN stored # {}
    /\ redis' = RedisAfter(redis, TickSeconds)
    /\ stored' = [k \in {x \in DOMAIN stored :
                           stored[x].age + TickSeconds < SEARCH_CACHE_TTL} |->
                     [resp |-> stored[k].resp, age |-> stored[k].age + TickSeconds]]
    /\ UNCHANGED <<upstream, redisUp, cs, pc, req, oa, cl, order, ranked, response,
                   cacheOps, prior, phases, nreq, call>>

Init ==
    /\ upstream \in Upstreams
    /\ redisUp = TRUE
    /\ redis = EmptyMap
    /\ cs = [initialized |-> FALSE, client |-> "None"]
    /\ pc = "idle"
    /\ req = Idle
    /\ oa = NoTask
    /\ cl = NoTask
    /\ order = <<>>
    /\ ranked = <<>>
    /\ response = PyNone
    /\ cacheOps = [get |-> 0, set |-> 0]
    /\ stored = EmptyMap
    /\ prior = "none"
    /\ phases = <<>>
    /\ nreq = 0
    /\ call = NoCall

Next ==
    \/ \E query \in Queries, limit \in Limits, offset \in Offsets,
          cursor \in Cursors, sources \in SourceSets :
          SearchStart(query, limit, offset, cursor, sources)
    \/ OpenAlexTask
    \/ CyberLeninkaTask
    \/ SearchFinish
    \/ SearchReturn
    \/ Tick

Spec == Init /\ [][Next]_vars

-----------------------------------------------------------------------------
(* One _request call of a client, attempt by attempt.                      *)

Clients == {"openalex", "cyberleninka"}

\* the service with a cache backend that can go away and come back between
\* two steps of search()

\* the pure functions of the ranking service and of utils, each applied to
\* inputs drawn from small sets

\* sanitize_filename without the replacement of [<>:|?*/]; the text is a
\* sequence of code points
sanitize_filename_no_replace(filename, max_length) ==
    LET ControlChars == (0..31) \cup (127..159)           \* [\x00-\x1f\x7f-\x9f]
        RemovedChars == {34, 39, 59, 92, 61}              \* ["';\\=]
        ReplacedChars == {60, 62, 58, 124, 63, 42, 47}    \* [<>:|?*/]
        \* \s of a str pattern (code points below 256), and the underscore
        SpaceOrUnderscore == (9..13) \cup (28..32) \cup {133, 160} \cup {95}
        RECURSIVE ReSubRemove(_, _)
        ReSubRemove(chars, s) ==
            IF s = <<>> THEN <<>>
            ELSE IF Head(s) \in chars THEN ReSubRemove(chars, Tail(s))
            ELSE <<Head(s)>> \o ReSubRemove(chars, Tail(s))
        ReSubReplace(chars, s) == [i \in DOMAIN s |-> IF s[i] \in chars THEN 95 ELSE s[i]]
        \* re.sub(r'[\s_]+', '_', s): every run becomes one underscore
        RECURSIVE ReSubCollapse(_)
        ReSubCollapse(s) ==
            IF s = <<>> THEN <<>>
            ELSE IF Head(s) \in SpaceOrUnderscore
                 THEN IF Len(s) > 1 /\ s[2] \in SpaceOrUnderscore
                      THEN ReSubCollapse(Tail(s))
                      ELSE <<95>> \o ReSubCollapse(Tail(s))
                 ELSE <<Head(s)>> \o ReSubCollapse(Tail(s))
        RECURSIVE LStripUnderscore(_)
        LStripUnderscore(s) ==
            IF s # <<>> /\ Head(s) = 95 THEN LStripUnderscore(Tail(s)) ELSE s
        RECURSIVE RStripUnderscore(_)
        RStripUnderscore(s) ==
            IF s # <<>> /\ s[Len(s)] = 95
            THEN RStripUnderscore(SubSeq(s, 1, Len(s) - 1)) ELSE s
        \* s[:n], n of either sign
        SliceTo(s, n) ==
            IF n >= 0 THEN SubSeq(s, 1, Min(n, Len(s)))
            ELSE SubSeq(s, 1, Max(Len(s) + n, 0))
        export == <<101, 120, 112, 111, 114, 116>>
        limited(s) == IF Len(s) > max_length THEN RStripUnderscore(SliceTo(s, max_length))
                      ELSE s
        or_export(s) == IF s # <<>> THEN s ELSE export
    IN  IF filename = <<>> THEN export
        ELSE or_export(limited(LStripUnderscore(RStripUnderscore(ReSubCollapse(
                 ReSubRemove(RemovedChars, ReSubRemove(ControlChars, filename)))))))

\* sanitize_filename; the text is a sequence of code points
sanitize_filename(filename, max_length) ==
    LET ControlChars == (0..31) \cup (127..159)           \* [\x00-\x1f\x7f-\x9f]
        RemovedChars == {34, 39, 59, 92, 61}              \* ["';\\=]
        ReplacedChars == {60, 62, 58, 124, 63, 42, 47}    \* [<>:|?*/]
        \* \s of a str pattern (code points below 256), and the underscore
        SpaceOrUnderscore == (9..13) \cup (28..32) \cup {133, 160} \cup {95}
        RECURSIVE ReSubRemove(_, _)
        ReSubRemove(chars, s) ==
            IF s = <<>> THEN <<>>
            ELSE IF Head(s) \in chars THEN ReSubRemove(chars, Tail(s))
            ELSE <<Head(s)>> \o ReSubRemove(chars, Tail(s))
        ReSubReplace(chars, s) == [i \in DOMAIN s |-> IF s[i] \in chars THEN 95 ELSE s[i]]
        \* re.sub(r'[\s_]+', '_', s): every run becomes one underscore
        RECURSIVE ReSubCollapse(_)
        ReSubCollapse(s) ==
            IF s = <<>> THEN <<>>
            ELSE IF Head(s) \in SpaceOrUnderscore
                 THEN IF Len(s) > 1 /\ s[2] \in SpaceOrUnderscore
                      THEN ReSubCollapse(Tail(s))
                      ELSE <<95>> \o ReSubCollapse(Tail(s))
                 ELSE <<Head(s)>> \o ReSubCollapse(Tail(s))
        RECURSIVE LStripUnderscore(_)
        LStripUnderscore(s) ==
            IF s # <<>> /\ Head(s) = 95 THEN LStripUnderscore(Tail(s)) ELSE s
        RECURSIVE RStripUnderscore(_)
        RStripUnderscore(s) ==
            IF s # <<>> /\ s[Len(s)] = 95
            THEN RStripUnderscore(SubSeq(s, 1, Len(s) - 1)) ELSE s
        \* s[:n], n of either sign
        SliceTo(s, n) ==
            IF n >= 0 THEN SubSeq(s, 1, Min(n, Len(s)))
            ELSE SubSeq(s, 1, Max(Len(s) + n, 0))
        export == <<101, 120, 112, 111, 114, 116>>
        limited(s) == IF Len(s) > max_length THEN RStripUnderscore(SliceTo(s, max_length))
                      ELSE s
        or_export(s) == IF s # <<>> THEN s ELSE export
    IN  IF filename = <<>> THEN export
        ELSE or_export(limited(LStripUnderscore(RStripUnderscore(ReSubCollapse(
                 ReSubReplace(ReplacedChars,
                     ReSubRemove(RemovedChars, ReSubRemove(ControlChars, filename))))))))

\* the queries, titles and abstracts _compute_keyword_match is applied to
KeywordInputs ==
    LET queries == {PyStr(<<"A", "I", " ", "M", "L">>), PyStr(<<"r", "n", "a", " ", "a", "i">>),
                    PyStr(<<"R", "N", "A", " ", "v", "i", "r", "u", "s">>), PyStr(<<"v", "i", "r", "u", "s">>)}
        titles == {PyStr(<<"a", "i", " ", "m", "l", " ", "r", "n", "a", " ", "V", "i", "r", "u", "s">>), PyStr(<<"R", "n", "a", " ", "V", "i", "r", "u", "s">>),
                   PyStr(<<"a", "i">>), PyStr(<<>>), PyStr(<<"v", "i", "r", "u", "s", " ", "m", "l", " ", "a", "i">>)}
        abstracts == {PyStr(<<>>), PyStr(<<"r", "n", "a">>), PyStr(<<"R", "n", "a", " ", "V", "i", "r", "u", "s">>)}
    IN  {[st |-> "keyword_match", done |-> FALSE, query |-> q, title |-> t, abstract |-> a] :
            q \in queries, t \in titles, a \in abstracts}

\* the batches of citation counts, the candidate and the increase of its count
BatchSize == 3
MaxCount == 3
MaxIncrease == 2
CitationInputs ==
    {[st |-> "citations", done |-> FALSE, counts |-> c, who |-> w, more |-> m] :
        c \in [1..BatchSize -> -1..MaxCount], w \in 1..BatchSize, m \in 1..MaxIncrease}

\* the file names (of at most MaxFilenameLen code points) and the lengths
\* sanitize_filename is applied to
MaxFilenameLen == 3
FilenameInputs ==
    LET chars == {0, 31, 127, 159, 34, 39, 59, 61, 92, 47, 32, 95, 97}
        filenames == UNION {[1..n -> chars] : n \in 0..MaxFilenameLen}
    IN  {[st |-> "sanitize", done |-> FALSE, filename |-> f, max_length |-> n] :
            f \in filenames, n \in {-1, 1, 200}}

\* the harvested responses (of at most MaxHarvest records), the queries and
\* the limits CyberLeninkaClient.search is applied to
MaxHarvest == 3
MaxLimit == 3
HarvestInputs ==
    LET harvests == UNION {[1..n -> {A1, A2, A3, XBAD}] : n \in 0..MaxHarvest}
        queries == {PyStr(<<"r", "n", "a">>), PyStr(<<"R", "N", "A", " ", "V", "i", "r", "u", "s">>),
                    PyStr(<<"i", "v", "a", "n", "o", "v">>)}
    IN  {[st |-> "harvest", done |-> FALSE, records |-> h, query |-> q, limit |-> n] :
            h \in harvests, q \in queries, n \in 1..MaxLimit}

\* CyberLeninkaClient.search is applied to the input; the HTTP request succeeds
CyberLeninkaSearch ==
    /\ call.st = "harvest"
    /\ ~call.done
    /\ call' = [st |-> "harvest", done |-> TRUE, records |-> call.records,
                query |-> call.query, limit |-> call.limit,
                value |-> cyberleninka_search(call.records,
                                              [i \in 1..MAX_RETRIES |-> Outcome("ok")],
                                              call.query, call.limit).value]
    /\ UNCHANGED <<upstream, redisUp, redis, cs, pc, req, oa, cl, order, ranked,
                   response, cacheOps, stored, prior, phases, nreq>>

\* _compute_keyword_match is applied to the input
ComputeKeywordMatch ==
    /\ call.st = "keyword_match"
    /\ ~call.done
    /\ call' = [st |-> "keyword_match", done |-> TRUE, query |-> call.query,
                title |-> call.title, abstract |-> call.abstract,
                value |-> compute_keyword_match(call.query, call.title, call.abstract)]
    /\ UNCHANGED <<upstream, redisUp, redis, cs, pc, req, oa, cl, order, ranked,
                   response, cacheOps, stored, prior, phases, nreq>>

\* rank_results scores the batch twice: as it is, and with the candidate's
\* count raised; the citation_score of every result is kept
ComputeCitationScores ==
    /\ call.st = "citations"
    /\ ~call.done
    /\ LET results(c) == [i \in DOMAIN c |-> PyDict([cited_by_count |-> PyInt(c[i])])]
           citation_scores(c) ==
               [i \in DOMAIN c |->
                   normalize_citations(
                       DictGet(results(c)[i], "cited_by_count", PyInt(0)).val,
                       max_citations_of(results(c)))]
       IN  call' = [st |-> "citations", done |-> TRUE, counts |-> call.counts,
                    who |-> call.who, more |-> call.more,
                    before |-> citation_scores(call.counts),
                    after |-> citation_scores([call.counts EXCEPT
                                                  ![call.who] = @ + call.more])]
    /\ UNCHANGED <<upstream, redisUp, redis, cs, pc, req, oa, cl, order, ranked,
                   response, cacheOps, stored, prior, phases, nreq>>

\* sanitize_filename is applied to the input
SanitizeFilename ==
    /\ call.st = "sanitize"
    /\ ~call.done
    /\ call' = [st |-> "sanitize", done |-> TRUE, filename |-> call.filename,
                max_length |-> call.max_length,
                value |-> sanitize_filename(call.filename, call.max_length)]
    /\ UNCHANGED <<upstream, redisUp, redis, cs, pc, req, oa, cl, order, ranked,
                   response, cacheOps, stored, prior, phases, nreq>>

FunctionInit ==
    /\ upstream = [oa |-> "o1", cl |-> "c1"]
    /\ redisUp = TRUE
    /\ redis = EmptyMap
    /\ cs = [initialized |-> FALSE, client |-> "None"]
    /\ pc = "idle"
    /\ req = Idle
    /\ oa = NoTask
    /\ cl = NoTask
    /\ order = <<>>
    /\ ranked = <<>>
    /\ response = PyNone
    /\ cacheOps = [get |-> 0, set |-> 0]
    /\ stored = EmptyMap
    /\ prior = "none"
    /\ phases = <<>>
    /\ nreq = 0
    /\ call \in KeywordInputs \cup CitationInputs \cup FilenameInputs \cup HarvestInputs

FunctionNext ==
    \/ ComputeKeywordMatch
    \/ ComputeCitationScores
    \/ SanitizeFilename
    \/ CyberLeninkaSearch

FunctionSpec == FunctionInit /\ [][FunctionNext]_vars

-----------------------------------------------------------------------------

\* the Redis server stops answering: ping, GET and SETEX raise from now on
RedisFails ==
    /\ redisUp
    /\ pc \in {"idle", "gather"}
    /\ redisUp' = FALSE
    /\ UNCHANGED <<upstream, redis, cs, pc, req, oa, cl, order, ranked, response,
                   cacheOps, stored, prior, phases, nreq, call>>

\* the Redis server answers again, with the keys it had
RedisRecovers ==
    /\ ~redisUp
    /\ pc \in {"idle", "gather"}
    /\ redisUp' = TRUE
    /\ UNCHANGED <<upstream, redis, cs, pc, req, oa, cl, order, ranked, response,
                   cacheOps, stored, prior, phases, nreq, call>>

FailInit ==
    /\ Init
    /\ upstream = [oa |-> "o1", cl |-> "c1"]

FailNext ==
    \/ Next
    \/ RedisFails
    \/ RedisRecovers

FailSpec == FailInit /\ [][FailNext]_vars

-----------------------------------------------------------------------------
\* _request of the two clients on its own

\* Retry-After headers a 429 answer may carry
RetryAfterHeaders ==
    {PyNone, PyStr(<<>>), PyStr(<<"5">>), PyStr(<<"9","9","9">>), PyStr(<<"0">>),
     PyStr(<<"-","3">>), PyStr(<<"s","o","o","n">>)}

HttpOutcomes ==
    {[kind |-> k, retry_after |-> PyNone] :
        k \in {"ok", "timeout", "4xx", "5xx", "error", "oai_error", "bad_xml"}}
    \cup {[kind |-> "429", retry_after |-> h] : h \in RetryAfterHeaders}

\* _request is called: the loop starts with attempt 0
RequestStart(client) ==
    /\ call.st = "none"
    /\ call' = [st |-> "loop", client |-> client, attempt |-> 0, outs |-> <<>>,
                sleeps |-> <<>>, end |-> "running"]
    /\ UNCHANGED <<upstream, redisUp, redis, cs, pc, req, oa, cl, order, ranked,
                   response, cacheOps, stored, prior, phases, nreq>>

\* one pass of the loop body: one HTTP attempt with outcome out
RequestAttempt(out) ==
    /\ call.st = "loop"
    /\ call.attempt < MAX_RETRIES
    /\ call.client = "openalex" => out.kind \notin {"oai_error", "bad_xml"}
    /\ LET step == IF call.client = "openalex"
                   THEN openalex_attempt(call.attempt, out)
                   ELSE cyberleninka_attempt(call.attempt, out)
       IN  call' = IF step.next = "continue"
                   THEN [call EXCEPT !.attempt = @ + 1, !.outs = Append(@, out),
                                     !.sleeps = @ \o step.sleep]
                   ELSE [call EXCEPT !.st = "ended", !.outs = Append(@, out),
                                     !.end = step.next]
    /\ UNCHANGED <<upstream, redisUp, redis, cs, pc, req, oa, cl, order, ranked,
                   response, cacheOps, stored, prior, phases, nreq>>

\* range(MAX_RETRIES) is used up: the code after the loop runs
RequestAfterLoop ==
    /\ call.st = "loop"
    /\ call.attempt >= MAX_RETRIES
    /\ call' = [call EXCEPT !.st = "ended", !.end = "after_loop"]
    /\ UNCHANGED <<upstream, redisUp, redis, cs, pc, req, oa, cl, order, ranked,
                   response, cacheOps, stored, prior, phases, nreq>>

AdapterInit ==
    /\ Init
    /\ upstream = [oa |-> "o1", cl |-> "c1"]

AdapterNext ==
    \/ \E client \in Clients : RequestStart(client)
    \/ \E out \in HttpOutcomes : RequestAttempt(out)
    \/ RequestAfterLoop

AdapterSpec == AdapterInit /\ [][AdapterNext]_vars

-----------------------------------------------------------------------------
\* search() with the two tasks run one HTTP attempt at a time: `call` holds the
\* outcomes of the attempts each running task has made

\* the outcomes task `name` has met so far
attempts_of(name) == IF call.st = "attempts" THEN call[name] ELSE <<>>

\* `call` once task `name` has met the outcomes `made`
attempts_with(name, made) ==
    LET now == [n \in {"openalex", "cyberleninka"} |->
                   IF n = name THEN made ELSE attempts_of(n)]
    IN  IF now["openalex"] = <<>> /\ now["cyberleninka"] = <<>> THEN NoCall
        ELSE [st |-> "attempts", openalex |-> now["openalex"],
              cyberleninka |-> now["cyberleninka"]]

\* `made` as the outcomes of MAX_RETRIES attempts; those after the end of the
\* loop are never asked for
outcomes_made(made) ==
    Outcomes([i \in 1..MAX_RETRIES |-> IF i <= Len(made) THEN made[i] ELSE "ok"])

\* what one HTTP attempt of the _search_openalex task does to the loop of
\* _request: it goes on (one more outcome in `call`), or it ends (the task is
\* the next to finish)
OpenAlexLoop(kind) ==
    /\ pc = "gather"
    /\ oa.st = "pending"
    /\ LET made == Append(attempts_of("openalex"), kind)
           step == openalex_attempt(Len(made) - 1, Outcome(kind))
       IN  IF step.next = "continue" /\ Len(made) < MAX_RETRIES
           THEN /\ call' = attempts_with("openalex", made)
                /\ order' = order
           ELSE /\ call' = attempts_with("openalex", <<>>)
                /\ order' = Append(order, "openalex")

\* one HTTP attempt of the _search_openalex task; after the last one the task
\* runs to its return
OpenAlexAttempt(kind) ==
    /\ OpenAlexLoop(kind)
    /\ LET outs == outcomes_made(Append(attempts_of("openalex"), kind))
       IN  oa' = IF order' = order THEN oa
                 ELSE DoneTask(search_openalex(req, OpenAlexHoldings[upstream.oa], outs),
                               outs)
    /\ UNCHANGED <<upstream, redisUp, redis, cs, pc, req, cl, ranked, response,
                   cacheOps, stored, prior, phases, nreq>>

\* what one HTTP attempt of the _search_cyberleninka task does to the loop
CyberLeninkaLoop(kind) ==
    /\ pc = "gather"
    /\ cl.st = "pending"
    /\ LET made == Append(attempts_of("cyberleninka"), kind)
           step == cyberleninka_attempt(Len(made) - 1, Outcome(kind))
       IN  IF step.next = "continue" /\ Len(made) < MAX_RETRIES
           THEN /\ call' = attempts_with("cyberleninka", made)
                /\ order' = order
           ELSE /\ call' = attempts_with("cyberleninka", <<>>)
                /\ order' = Append(order, "cyberleninka")

\* one HTTP attempt of the _search_cyberleninka task
CyberLeninkaAttempt(kind) ==
    /\ CyberLeninkaLoop(kind)
    /\ LET outs == outcomes_made(Append(attempts_of("cyberleninka"), kind))
       IN  cl' = IF order' = order THEN cl
                 ELSE DoneTask(search_cyberleninka(req, CyberLeninkaHoldings[upstream.cl],
                                                   outs),
                               outs)
    /\ UNCHANGED <<upstream, redisUp, redis, cs, pc, req, oa, ranked, response,
                   cacheOps, stored, prior, phases, nreq>>

\* asyncio.gather has every result: search() can go on. SearchFinish is enabled
\* where this is, and nowhere else.
GatherReturns ==
    /\ pc = "gather"
    /\ oa.st # "pending"
    /\ cl.st # "pending"
    /\ pc' = "done"
    /\ UNCHANGED <<upstream, redisUp, redis, cs, req, oa, cl, order, ranked, response,
                   cacheOps, stored, prior, phases, nreq, call>>

\* an attempt of a task can be made: a step of the loop alone. The attempt
\* actions are enabled where these are, and nowhere else.
OpenAlexCanAttempt(kind) ==
    /\ OpenAlexLoop(kind)
    /\ UNCHANGED <<upstream, redisUp, redis, cs, pc, req, oa, cl, ranked, response,
                   cacheOps, stored, prior, phases, nreq>>

CyberLeninkaCanAttempt(kind) ==
    /\ CyberLeninkaLoop(kind)
    /\ UNCHANGED <<upstream, redisUp, redis, cs, pc, req, oa, cl, ranked, response,
                   cacheOps, stored, prior, phases, nreq>>

LiveNext ==
    \/ \E query \in Queries, limit \in Limits, offset \in Offsets,
          cursor \in Cursors, sources \in SourceSets :
          SearchStart(query, limit, offset, cursor, sources)
    \/ \E kind \in OpenAlexOutcomes \cup {"5xx"} : OpenAlexAttempt(kind)
    \/ \E kind \in CyberLeninkaOutcomes : CyberLeninkaAttempt(kind)
    \/ SearchFinish
    \/ SearchReturn

\* the scheduling of asyncio: the event loop resumes every coroutine whose
\* awaited call has returned, and every HTTP attempt returns or times out
\* (REQUEST_TIMEOUT), as every cache call does, so no enabled step of a request
\* waits for ever: weak fairness of the attempts of either task and of
\* SearchFinish. Each fair action is written `enabling step \/ action`; the first
\* disjunct is enabled exactly where the action is and adds no step to LiveNext,
\* so the condition is WF_vars(action), with an enabledness that is evaluated
\* without computing the task's result or the ranking.
LiveSpec ==
    /\ AdapterInit
    /\ [][LiveNext]_vars
    /\ WF_vars(\E kind \in OpenAlexOutcomes \cup {"5xx"} :
                  OpenAlexCanAttempt(kind) \/ OpenAlexAttempt(kind))
    /\ WF_vars(\E kind \in CyberLeninkaOutcomes :
                  CyberLeninkaCanAttempt(kind) \/ CyberLeninkaAttempt(kind))
    /\ WF_vars(GatherReturns \/ SearchFinish)

-----------------------------------------------------------------------------
\* refresh tokens: utils/security.py with the cache service behind it

\* settings.fail_closed_on_cache_error, at its default
FAIL_CLOSED_ON_CACHE_ERROR == TRUE

\* CacheService.exists: [cs, raised, value]; both failures are caught inside
cache_exists(c, up, store, key) ==
    LET c2 == get_client(c, up)
        full_key == <<CACHE_PREFIX, key>>
    IN  IF c2.client = "None" THEN [cs |-> c2, raised |-> FALSE, value |-> FALSE]
        ELSE IF ~up THEN [cs |-> c2, raised |-> FALSE, value |-> FALSE]   \* except: return False
        ELSE [cs |-> c2, raised |-> FALSE, value |-> full_key \in DOMAIN store]

\* is_token_revoked: [cs, value]
is_token_revoked(c, up, store, jti) ==
    LET answered(got) ==
            IF ~got.raised THEN [cs |-> got.cs, value |-> got.value]
            ELSE IF FAIL_CLOSED_ON_CACHE_ERROR THEN [cs |-> got.cs, value |-> TRUE]
            ELSE [cs |-> got.cs, value |-> FALSE]
    IN  answered(cache_exists(c, up, store, <<"revoked_token:", jti.val>>))

\* decode_refresh_token: [cs, asked, revoked, value]. jwt.decode raises JWTError
\* for a token with a wrong signature and for an expired one.
decode_refresh_token(c, up, store, token) ==
    LET payload == PyDict(token.claims)
        jti == DictGet(payload, "jti", PyNone)
        checked(r) == [cs |-> r.cs, asked |-> TRUE, revoked |-> r.value,
                       value |-> IF r.value THEN PyNone ELSE payload]
        unasked(v) == [cs |-> c, asked |-> FALSE, revoked |-> FALSE, value |-> v]
    IN  IF ~token.signed \/ token.expired THEN unasked(PyNone)
        ELSE IF DictGet(payload, "type", PyNone) # PyStr(<<"r","e","f","r","e","s","h">>)
             THEN unasked(PyNone)
        ELSE IF Truthy(jti) THEN checked(is_token_revoked(c, up, store, jti))
        ELSE unasked(payload)

\* one call of decode_refresh_token
DecodeRefreshToken(token) ==
    /\ LET r == decode_refresh_token(cs, redisUp, redis, token)
       IN  /\ cs' = r.cs
           /\ call' = [st |-> "decode_refresh_token", token |-> token, up |-> redisUp,
                       asked |-> r.asked, revoked |-> r.revoked, value |-> r.value]
    /\ UNCHANGED <<upstream, redisUp, redis, pc, req, oa, cl, order, ranked, response,
                   cacheOps, stored, prior, phases, nreq>>

TokenNext ==
    \/ \E signed \in BOOLEAN, expired \in BOOLEAN,
          claims \in {[type |-> t, jti |-> j] :
                         t \in {PyStr(<<"r","e","f","r","e","s","h">>),
                                PyStr(<<"a","c","c","e","s","s">>)},
                         j \in {PyStr(<<"j","1">>), PyStr(<<"j","2">>), PyStr(<<>>)}}
                     \cup {[type |-> PyStr(<<"r","e","f","r","e","s","h">>)]} :
          DecodeRefreshToken([signed |-> signed, expired |-> expired, claims |-> claims])
    \/ RedisFails
    \/ RedisRecovers

TokenSpec == AdapterInit /\ [][TokenNext]_vars

-----------------------------------------------------------------------------
\* POST /refresh (api/auth.py) run by two requests of one process; a request
\* is suspended at each await: decode_refresh_token, db.execute and
\* revoke_refresh_token

\* revoke_refresh_token with the claim always granted
revoke_refresh_token_always_claims(c, up, store, token) ==
    [cs |-> c, redis |-> store, value |-> TRUE]

\* revoke_refresh_token: [cs, redis, value]. Every path returns False: a bad
\* signature raises JWTError, a token without jti or past its exp is refused,
\* and for the others the lookup of cache_service.set_if_not_exists raises
\* AttributeError (CacheService defines _get_client, get, set, delete, exists,
\* clear_search_cache, get/set_search_results, get/set_article,
\* increment_rate_limit and get_rate_limit only), which `except Exception`
\* turns into False before anything is written.
revoke_refresh_token(c, up, store, token) ==
    LET payload == PyDict(token.claims)
        jti == DictGet(payload, "jti", PyNone)
        refused == [cs |-> c, redis |-> store, value |-> FALSE]
    IN  IF ~token.signed THEN refused
        ELSE IF ~Truthy(jti) THEN refused
        ELSE IF token.expired THEN refused
        ELSE refused

\* two /refresh requests arrive, each with a refresh token
RefreshStart ==
    /\ call.st = "none"
    /\ \E t1, t2 \in {[signed |-> TRUE, expired |-> e, claims |-> c] :
                         e \in BOOLEAN,
                         c \in {[type |-> PyStr(<<"r","e","f","r","e","s","h">>),
                                 jti |-> PyStr(j), sub |-> PyStr(u)] :
                                    j \in {<<"j","1">>, <<"j","2">>},
                                    u \in {<<"u","1">>, <<"u","2">>, <<"x">>}}
                               \cup {[type |-> PyStr(<<"r","e","f","r","e","s","h">>),
                                      jti |-> PyStr(<<"j","1">>)]}} :
          call' = [st |-> "refresh",
                   procs |-> [p \in 1..2 |->
                                [at |-> "decode", token |-> IF p = 1 THEN t1 ELSE t2,
                                 up_all |-> TRUE, status |-> 0, detail |-> "",
                                 issued |-> FALSE]]]
    /\ UNCHANGED <<upstream, redisUp, redis, cs, pc, req, oa, cl, order, ranked,
                   response, cacheOps, stored, prior, phases, nreq>>

\* request p runs up to its next await, or to its response
RefreshStep(p) ==
    /\ call.st = "refresh"
    /\ call.procs[p].at # "done"
    /\ LET me == call.procs[p]
           UUIDs == {<<"u","1">>, <<"u","2">>}         \* strings uuid.UUID accepts
           ActiveUsers == {<<"u","1">>}                \* rows with deleted_at NULL
           user_id == DictGet(PyDict(me.token.claims), "sub", PyNone)
           reject(detail) == [me EXCEPT !.at = "done", !.status = 401, !.detail = detail,
                                        !.up_all = me.up_all /\ redisUp]
           goto(at) == [me EXCEPT !.at = at, !.up_all = me.up_all /\ redisUp]
           decoded == decode_refresh_token(cs, redisUp, redis, me.token)
           claimed == revoke_refresh_token(cs, redisUp, redis, me.token)
           step(c, store, mine) ==
               /\ cs' = c
               /\ redis' = store
               /\ call' = [call EXCEPT !.procs[p] = mine]
       IN  CASE me.at = "decode" ->
                   IF decoded.value = PyNone
                   THEN step(decoded.cs, redis, reject("Invalid or expired refresh token"))
                   ELSE IF user_id = PyNone \/ user_id.val \notin UUIDs
                   THEN step(decoded.cs, redis, reject("Invalid refresh token"))
                   ELSE step(decoded.cs, redis, goto("db"))
             [] me.at = "db" ->
                   IF user_id.val \notin ActiveUsers
                   THEN step(cs, redis, reject("User not found or deactivated"))
                   ELSE step(cs, redis, goto("revoke"))
             [] me.at = "revoke" ->
                   IF ~claimed.value
                   THEN step(claimed.cs, claimed.redis,
                             reject("Refresh token already used. Please login again."))
                   ELSE step(claimed.cs, claimed.redis,
                             [me EXCEPT !.at = "done", !.status = 200, !.issued = TRUE,
                                        !.up_all = me.up_all /\ redisUp])
    /\ UNCHANGED <<upstream, redisUp, pc, req, oa, cl, order, ranked, response,
                   cacheOps, stored, prior, phases, nreq>>

RefreshNext ==
    \/ RefreshStart
    \/ \E p \in 1..2 : RefreshStep(p)
    \/ RedisFails
    \/ RedisRecovers

RefreshSpec == AdapterInit /\ [][RefreshNext]_vars

-----------------------------------------------------------------------------
\* offset pagination: search() called for the first page (offset 0) and for the
\* second (offset = limit) of one query, both sources selected; the upstream
\* data stay what they are at the start

PageNext ==
    \/ \E query \in Queries, limit \in Limits, page \in {0, 1} :
          SearchStart(query, limit, page * limit, PyNone, PyNone)
    \/ OpenAlexTask
    \/ CyberLeninkaTask
    \/ SearchFinish
    \/ SearchReturn

PageSpec == Init /\ [][PageNext]_vars

-----------------------------------------------------------------------------
\* two search() calls in one process at their cache lookup: both go through the
\* module-level cache_service, whose _client and _initialized they share

\* the two calls arrive
ConcurrentStart ==
    /\ call.st = "none"
    /\ call' = [st |-> "lookups",
                procs |-> [p \in 1..2 |-> [at |-> "start", ping_ok |-> FALSE,
                                           client |-> "None", up_client |-> FALSE,
                                           up_get |-> FALSE, answered |-> FALSE]]]
    /\ UNCHANGED <<upstream, redisUp, redis, cs, pc, req, oa, cl, order, ranked,
                   response, cacheOps, stored, prior, phases, nreq>>

\* _get_client up to its first suspension: with _initialized set it returns
\* self._client; otherwise it assigns self._client and awaits ping()
GetClient(p) ==
    /\ call.st = "lookups"
    /\ call.procs[p].at = "start"
    /\ IF cs.initialized
       THEN /\ call' = [call EXCEPT !.procs[p].at = "get",
                                    !.procs[p].client = cs.client,
                                    !.procs[p].up_client = redisUp]
            /\ cs' = cs
       ELSE /\ call' = [call EXCEPT !.procs[p].at = "ping",
                                    !.procs[p].ping_ok = redisUp,
                                    !.procs[p].up_client = redisUp]
            /\ cs' = [cs EXCEPT !.client = "redis"]
    /\ UNCHANGED <<upstream, redisUp, redis, pc, req, oa, cl, order, ranked,
                   response, cacheOps, stored, prior, phases, nreq>>

\* _get_client resumes after ping(): _initialized is set, in the except branch
\* self._client is set to None, and self._client is returned
PingReturns(p) ==
    /\ call.st = "lookups"
    /\ call.procs[p].at = "ping"
    /\ cs' = IF call.procs[p].ping_ok THEN [cs EXCEPT !.initialized = TRUE]
             ELSE [initialized |-> TRUE, client |-> "None"]
    /\ call' = [call EXCEPT !.procs[p].at = "get", !.procs[p].client = cs'.client]
    /\ UNCHANGED <<upstream, redisUp, redis, pc, req, oa, cl, order, ranked,
                   response, cacheOps, stored, prior, phases, nreq>>

\* CacheService.get after _get_client: None without a client, else client.get,
\* whose error is caught
CacheGet(p) ==
    /\ call.st = "lookups"
    /\ call.procs[p].at = "get"
    /\ call' = [call EXCEPT !.procs[p].at = "done",
                            !.procs[p].up_get = redisUp,
                            !.procs[p].answered = (call.procs[p].client = "redis" /\ redisUp)]
    /\ UNCHANGED <<upstream, redisUp, redis, cs, pc, req, oa, cl, order, ranked,
                   response, cacheOps, stored, prior, phases, nreq>>

ConcurrentNext ==
    \/ ConcurrentStart
    \/ \E p \in 1..2 : GetClient(p)
    \/ \E p \in 1..2 : PingReturns(p)
    \/ \E p \in 1..2 : CacheGet(p)
    \/ RedisFails
    \/ RedisRecovers

ConcurrentSpec == AdapterInit /\ [][ConcurrentNext]_vars

-----------------------------------------------------------------------------
(* Properties of SearchService.search, checked under Spec.                 *)

\* the call in flight has returned a response built from the sources
Answered == pc = "done" /\ response.val.from_cache = PyBool(FALSE)

\* the call in flight has returned a response read from the cache
ServedFromCache == pc = "done" /\ response.val.from_cache = PyBool(TRUE)

\* C1: the total of a response that is not served from the cache is the sum of
\* the totals of the adapters that returned; an adapter whose client raised or
\* timed out reports 0 and leaves the other adapter's total as it is.
C1_TotalIsSumOfAdapterTotals ==
    Answered =>
        LET reported(t) == IF t.st = "done" THEN t.res.val.total.val ELSE 0
            failed(t) == t.st = "done" /\ (t.timed_out \/ ~t.client_ok)
        IN  /\ response.val.total = PyInt(reported(oa) + reported(cl))
            /\ failed(oa) => reported(oa) = 0
            /\ failed(cl) => reported(cl) = 0

\* both adapters ran, OpenAlex timed out on every attempt, CyberLeninka found
\* something, and the total is CyberLeninka's
C1_Witness ==
    /\ Answered
    /\ oa.st = "done" /\ oa.timed_out
    /\ cl.st = "done" /\ cl.res.val.total.val > 0
    /\ response.val.total = cl.res.val.total

\* C2 as amended: during a request whose cursor is a non-empty string neither
\* get_search_results nor set_search_results is called, and neither the Redis
\* keyspace nor the cache client changes.
C2_CursorBypassesCache ==
    [][(pc' # "idle" /\ Truthy(req'.cursor)) =>
          (cacheOps'.get = 0 /\ cacheOps'.set = 0 /\ redis' = redis /\ cs' = cs)]_vars

\* a request with the cursor "*" has returned results and has written nothing
C2_Witness ==
    /\ pc = "done"
    /\ Truthy(req.cursor)
    /\ ranked # <<>>
    /\ cacheOps = [get |-> 0, set |-> 0]

\* C2 as stated: the same for every cursor that is not null, the empty string
\* included.
C2_Original ==
    [][(pc' # "idle" /\ req'.cursor # PyNone) =>
          (cacheOps'.get = 0 /\ cacheOps'.set = 0 /\ redis' = redis /\ cs' = cs)]_vars

\* C3 as amended: an offset request that begins less than the cache TTL after a
\* request with the same query and filters was answered from the sources with
\* at least one result returns from_cache = true, and no adapter task is
\* created for it.
C3_SecondRequestFromCache ==
    (pc # "idle" /\ ~Truthy(req.cursor) /\ prior = "results") =>
        /\ ServedFromCache
        /\ oa.st = "absent" /\ cl.st = "absent" /\ order = <<>>

\* the second request came TickSeconds or more after the first and was served
\* from the cache
C3_Witness ==
    /\ ServedFromCache
    /\ req.cursor = PyNone
    /\ prior = "results"
    /\ stored[cache_key_of(req)].age > 0

\* C3 as stated: the same whatever the first request returned, an empty result
\* included.
C3_Original ==
    (pc # "idle" /\ req.cursor = PyNone /\ prior # "none") =>
        /\ ServedFromCache
        /\ oa.st = "absent" /\ cl.st = "absent" /\ order = <<>>

\* C4: a response served from the cache was stored under the same key less
\* than SEARCH_CACHE_TTL ago, and its total, results and next_cursor are those
\* of the stored response; from_cache is true.
C4_CacheRoundTrip ==
    ServedFromCache =>
        /\ cache_key_of(req) \in DOMAIN stored
        /\ LET entry == stored[cache_key_of(req)]
           IN  /\ entry.age < SEARCH_CACHE_TTL
               /\ response.val.total = entry.resp.val.total
               /\ response.val.results = entry.resp.val.results
               /\ response.val.next_cursor = entry.resp.val.next_cursor
               /\ DOMAIN response.val = DOMAIN entry.resp.val

\* a stored response with results is read back TickSeconds or more later, and
\* differs from the stored one in from_cache and execution_time_ms
C4_Witness ==
    /\ ServedFromCache
    /\ response.val.results.val # <<>>
    /\ stored[cache_key_of(req)].age > 0
    /\ response.val.from_cache # stored[cache_key_of(req)].resp.val.from_cache
    /\ response.val.execution_time_ms
          # stored[cache_key_of(req)].resp.val.execution_time_ms

\* C5: every result rank_results returns has a relevance_score between 0 and 1
\* that is the sum of 0.35, 0.20, 0.15, 0.10, 0.05, 0.10 and 0.05 times its
\* seven ranking_signals, rounded to 4 decimals.
C5_ScoreIsWeightedSum ==
    pc = "done" =>
        \A i \in 1..Len(ranked) :
            LET sig == ranked[i].val.ranking_signals.val
                total == 35 * sig.semantic_similarity.val + 20 * sig.keyword_match.val
                         + 15 * sig.citation_score.val + 10 * sig.recency_score.val
                         + 5 * sig.open_access.val + 10 * sig.source_quality.val
                         + 5 * sig.language_match.val
                score == ranked[i].val.relevance_score.val
            IN  /\ 0 <= score /\ score <= SCALE
                /\ score = round4(total)
                /\ 35 + 20 + 15 + 10 + 5 + 10 + 5 = 100

\* four results of both sources are ranked, with different scores
C5_Witness ==
    /\ pc = "done"
    /\ Len(ranked) = 4
    /\ \E i, j \in 1..Len(ranked) :
          ranked[i].val.relevance_score.val > ranked[j].val.relevance_score.val
    /\ \E i \in 1..Len(ranked) : ranked[i].val.ranking_signals.val.citation_score.val > 0

\* C6: a search of one source whose HTTP attempts all time out returns total 0
\* and no results, with from_cache = false, and search() returns normally.
C6_SingleSourceTimeout ==
    (/\ pc = "done"
     /\ \/ req.sources = PyList(<<PyStr(OPENALEX)>>) /\ oa.timed_out
        \/ req.sources = PyList(<<PyStr(CYBERLENINKA)>>) /\ cl.timed_out) =>
        /\ response.ty = "dict"
        /\ response.val.total = PyInt(0)
        /\ response.val.results = PyList(<<>>)
        /\ response.val.from_cache = PyBool(FALSE)

\* an OpenAlex-only search of a provider that holds matching works, all three
\* attempts timed out
C6_Witness ==
    /\ pc = "done"
    /\ req.sources = PyList(<<PyStr(OPENALEX)>>)
    /\ oa.timed_out
    /\ upstream.oa = "o1"
    /\ response.val.results = PyList(<<>>)

\* C7: the results of a response that is not served from the cache are the
\* first `limit` of the ranked candidates: at most `limit` of them, in
\* non-increasing score order, and no candidate left out scores higher than
\* one that is returned.
C7_TopLimitOfRanked ==
    Answered =>
        LET out == response.val.results.val
            n == Len(out)
            limit == req.limit.val
            found(t) == IF t.st = "done" THEN Len(t.res.val.results.val) ELSE 0
            candidates == found(oa) + found(cl)
            score(a) == a.val.relevance_score.val
        IN  /\ Len(ranked) = candidates
            /\ n = IF candidates < limit THEN candidates ELSE limit
            /\ \A i \in 1..n : out[i] = ranked[i]
            /\ \A i \in 1..Len(ranked) - 1 : score(ranked[i]) >= score(ranked[i + 1])
            /\ \A i \in 1..n : \A j \in n + 1..Len(ranked) : score(ranked[j]) <= score(out[i])

\* more candidates than `limit`, and one of those left out scores lower
C7_Witness ==
    /\ Answered
    /\ Len(ranked) > req.limit.val
    /\ Len(response.val.results.val) = req.limit.val
    /\ ranked[Len(ranked)].val.relevance_score.val < ranked[1].val.relevance_score.val

\* C8: in every response total is at least the number of results.
C8_TotalAtLeastResults ==
    pc = "done" => response.val.total.val >= Len(response.val.results.val)

\* C9: the response depends on what the adapter tasks returned and not on the
\* order they finished in: it is the response built from the tasks' results
\* taken in the order the tasks were created.
C9_FinishOrderIrrelevant ==
    Answered =>
        LET in_call_order == (IF oa.st = "done" THEN <<oa.res>> ELSE <<>>)
                             \o (IF cl.st = "done" THEN <<cl.res>> ELSE <<>>)
            merged == merge(in_call_order)
        IN  response = response_of(req, merged, ranked_of(req, merged))

\* CyberLeninka finished before OpenAlex, both found something, and a result of
\* each has the same score
C9_Witness ==
    /\ Answered
    /\ order = <<"cyberleninka", "openalex">>
    /\ \E i, j \in 1..Len(ranked) :
          /\ ranked[i].val.source = PyStr(OPENALEX)
          /\ ranked[j].val.source = PyStr(CYBERLENINKA)
          /\ ranked[i].val.relevance_score = ranked[j].val.relevance_score

-----------------------------------------------------------------------------
(* Properties of one _request call, checked under AdapterSpec.             *)

\* C10: a _request call of either client makes at most MAX_RETRIES = 3 HTTP
\* attempts, whatever their outcomes, and when the first answer is a 4xx other
\* than 429 it ends after that one attempt without a sleep.
C10_AtMostThreeAttempts ==
    call.st # "none" =>
        /\ Len(call.outs) <= 3
        /\ (Len(call.outs) >= 1 /\ call.outs[1].kind = "4xx") =>
              (call.st = "ended" /\ Len(call.outs) = 1 /\ call.sleeps = <<>>)

\* a call ended after a 429, a timeout and a 5xx answer
C10_Witness ==
    /\ call.st = "ended"
    /\ Len(call.outs) = 3
    /\ call.outs[1].kind = "429"
    /\ call.outs[2].kind = "timeout"
    /\ call.outs[3].kind = "5xx"
    /\ Len(call.sleeps) = 2

-----------------------------------------------------------------------------
\* C11: in each of the two adapters a 429 answer is never an immediate failure:
\* a _request call whose first answer is 429 has slept and has gone on to a
\* further attempt before it can end.
C11_RateLimitedIsRetried ==
    (call.st = "ended" /\ Len(call.outs) >= 1 /\ call.outs[1].kind = "429") =>
        (Len(call.sleeps) >= 1 /\ Len(call.outs) >= 2)

-----------------------------------------------------------------------------
\* C12: whatever Retry-After header a 429 answer carries (missing, empty, not an
\* integer, zero, negative, a positive integer), the delay the OpenAlex client
\* sleeps is an integer in 1..300: 60 when the header is missing, unparsable,
\* zero or negative, and min(value, 300) otherwise.
C12_RetryAfterDelayBounded ==
    LET \* the delay header h asks for, read off the header by hand
        expected(h) ==
            CASE h = PyNone -> 60
              [] h = PyStr(<<>>) -> 60
              [] h = PyStr(<<"s","o","o","n">>) -> 60
              [] h = PyStr(<<"0">>) -> 60
              [] h = PyStr(<<"-","3">>) -> 60
              [] h = PyStr(<<"5">>) -> 5
              [] h = PyStr(<<"9","9","9">>) -> 300
    IN  (call.st # "none" /\ call.client = "openalex") =>
            \A i \in 1..Len(call.sleeps) :
                call.outs[i].kind = "429" =>
                    /\ call.sleeps[i] \in 1..300
                    /\ call.sleeps[i] = expected(call.outs[i].retry_after)

\* an OpenAlex call that slept the default, a short and a capped delay
C12_Witness ==
    /\ call.st = "ended"
    /\ call.client = "openalex"
    /\ Len(call.outs) = 3
    /\ call.outs[1] = [kind |-> "429", retry_after |-> PyStr(<<"-","3">>)]
    /\ call.outs[2] = [kind |-> "429", retry_after |-> PyStr(<<"5">>)]
    /\ call.outs[3] = [kind |-> "429", retry_after |-> PyStr(<<"9","9","9">>)]
    /\ call.sleeps = <<60, 5, 300>>

-----------------------------------------------------------------------------
\* C13: the cache fails open for search. In a step of search() taken while the
\* backend does not answer, or after the connection failed at first use, nothing
\* is raised: the failed read is a miss (the sources are asked), the failed
\* write changes nothing, and the response has the total and the results that
\* search() computes from the adapters' answers with no cache at all.
C13_CacheFailsOpen ==
    [][(~redisUp \/ cs'.client = "None") =>
          /\ (pc = "idle" /\ pc' # "idle") => (pc' = "gather" /\ redis' = redis)
          /\ (pc = "gather" /\ pc' = "done") =>
                LET tasks == tasks_of(req)
                    result_of == [openalex |-> oa.res, cyberleninka |-> cl.res]
                    uncached == merge(IF tasks # <<>>
                                      THEN gather(tasks, tasks, result_of) ELSE <<>>)
                IN  /\ redis' = redis
                    /\ response'.ty = "dict"
                    /\ response'.val.from_cache = PyBool(FALSE)
                    /\ response'.val.total = PyInt(uncached.total)
                    /\ response'.val.results =
                          PyList(Take(ranked_of(req, uncached), req.limit.val))]_vars

\* the same query a second time: the first answer was stored, then the backend
\* went away; the read and the write of the second request both failed and the
\* request was answered from the sources
C13_Witness ==
    /\ pc = "done"
    /\ ~redisUp
    /\ cs.client = "redis"
    /\ prior = "results"
    /\ cacheOps = [get |-> 1, set |-> 1]
    /\ response.val.from_cache = PyBool(FALSE)
    /\ response.val.results.val # <<>>

-----------------------------------------------------------------------------
\* C14 as amended: whenever the merged item list is empty the request succeeds
\* and the response has results = [] and a total equal to the sum of the totals
\* the adapters reported, for every combination of adapter answers; that sum is
\* 0 unless a source reported a positive count beside an empty item list.
C14_EmptyMergedResult ==
    (Answered /\ ranked = <<>>) =>
        LET reported(t) == IF t.st = "done" THEN t.res.val.total.val ELSE 0
            found(t) == IF t.st = "done" THEN Len(t.res.val.results.val) ELSE 0
        IN  /\ found(oa) + found(cl) = 0
            /\ response.ty = "dict"
            /\ response.val.results = PyList(<<>>)
            /\ response.val.total = PyInt(reported(oa) + reported(cl))
            /\ (reported(oa) = 0 /\ reported(cl) = 0) => response.val.total = PyInt(0)

\* both adapters were asked, both returned no item and no count
C14_Witness ==
    /\ Answered
    /\ oa.st = "done" /\ oa.client_ok
    /\ cl.st = "done" /\ cl.client_ok
    /\ ranked = <<>>
    /\ response.val.total = PyInt(0)
    /\ response.val.results = PyList(<<>>)

\* C14 as first stated: whenever the merged item list is empty the response has
\* total = 0 and results = [].
C14_Original ==
    (Answered /\ ranked = <<>>) =>
        (response.val.total = PyInt(0) /\ response.val.results = PyList(<<>>))

-----------------------------------------------------------------------------
\* C15 as amended: for every query that has a token longer than 2 characters
\* and every title in which each whitespace-separated token of the query occurs
\* case-insensitively, keyword_match is exactly 1.0; a query whose tokens are
\* all of 1 or 2 characters scores 0.5 whatever the title; keyword_match never
\* exceeds 1.0.
C15_KeywordMatchFullOverlap ==
    (call.st = "keyword_match" /\ call.done) =>
        LET tokens == Split(call.query.val)
            in_title(w) == Contains(Lower(call.title.val), Lower(w))
            all_in_title == \A i \in DOMAIN tokens : in_title(tokens[i])
            has_long == \E i \in DOMAIN tokens : Len(tokens[i]) > 2
        IN  /\ (all_in_title /\ has_long) => call.value = SCALE
            /\ ~has_long => call.value = SCALE \div 2
            /\ call.value <= SCALE

\* a query of a long and a short token, both in the title
C15_Witness ==
    /\ call.st = "keyword_match" /\ call.done
    /\ call.query = PyStr(<<"r", "n", "a", " ", "a", "i">>)
    /\ call.title = PyStr(<<"a", "i", " ", "m", "l", " ", "r", "n", "a", " ", "V", "i", "r", "u", "s">>)
    /\ call.value = SCALE

\* C15 as first stated: whenever each whitespace-separated token of the query
\* occurs case-insensitively in the title, keyword_match is exactly 1.0,
\* whatever the lengths of the tokens, and it never exceeds 1.0.
C15_Original ==
    (call.st = "keyword_match" /\ call.done) =>
        LET tokens == Split(call.query.val)
            in_title(w) == Contains(Lower(call.title.val), Lower(w))
        IN  /\ (\A i \in DOMAIN tokens : in_title(tokens[i])) => call.value = SCALE
            /\ call.value <= SCALE

-----------------------------------------------------------------------------
\* C16: within one batch, raising a candidate's citation count with all else
\* fixed never lowers its citation_score; a candidate with cited_by_count <= 0
\* has citation_score 0; a candidate that holds the positive maximum of the
\* batch has citation_score 1.0.
C16_CitationScoreMonotone ==
    (call.st = "citations" /\ call.done) =>
        LET c == call.counts
            top == CHOOSE m \in {c[i] : i \in DOMAIN c} : \A i \in DOMAIN c : c[i] <= m
        IN  /\ call.after[call.who] >= call.before[call.who]
            /\ \A i \in DOMAIN c : c[i] <= 0 => call.before[i] = 0
            /\ \A i \in DOMAIN c : (c[i] > 0 /\ c[i] = top) => call.before[i] = SCALE
            /\ \A i \in DOMAIN c : call.before[i] \in 0..SCALE

\* the candidate was below the maximum of the batch and is raised above it
C16_Witness ==
    /\ call.st = "citations" /\ call.done
    /\ call.counts = <<1, 3, 0>>
    /\ call.who = 1
    /\ call.more = 2
    /\ call.before[1] > 0 /\ call.before[1] < SCALE
    /\ call.after[1] = SCALE
    /\ call.before[3] = 0

-----------------------------------------------------------------------------
\* C20: for every file name and every max_length the output of
\* sanitize_filename holds no control character (0x00-0x1f, 0x7f-0x9f), no
\* double or single quote, no semicolon, no equals sign, no backslash and no
\* forward slash.
C20_SanitizedFilenameIsSafe ==
    (call.st = "sanitize" /\ call.done) =>
        \A i \in DOMAIN call.value :
            /\ ~(call.value[i] >= 0 /\ call.value[i] <= 31)
            /\ ~(call.value[i] >= 127 /\ call.value[i] <= 159)
            /\ call.value[i] \notin {34, 39, 59, 61, 92, 47}

\* "/a\" with a control character in front: the slash became an underscore
\* that was stripped, the rest was removed
C20_Witness ==
    /\ call.st = "sanitize" /\ call.done
    /\ call.filename = <<47, 97, 92>>
    /\ call.max_length = 200
    /\ call.value = <<97>>

-----------------------------------------------------------------------------
\* C17: a record of the OpenAlex page that cannot be turned into an article is
\* skipped alone: when the HTTP request succeeded and the page was read, every
\* record of the page that can be turned into an article is among the results
\* the adapter contributes, so one bad record never leaves the source with
\* nothing.
C17_BadRecordSkippedAlone ==
    (pc = "done" /\ oa.st = "done" /\ oa.client_ok /\ ~oa.timed_out) =>
        LET works == OpenAlexHoldings[upstream.oa].works
            page == SubSeq(works, 1, Min(req.limit.val, Len(works)))
            good(item) == /\ OpenAlexWork(item).ok
                          /\ ~work_to_article_dict(OpenAlexWork(item).work).raised
            contributed == oa.res.val.results.val
        IN  Len(contributed) = Cardinality({i \in DOMAIN page : good(page[i])})

-----------------------------------------------------------------------------
\* C18 as amended: every offset-mode request performs CACHE_CHECK first; on a
\* hit it reaches DONE without FANOUT; on a miss it passes through FANOUT and
\* MERGE and, when the merged result is not empty, RANK and CACHE_STORE, each
\* exactly once and in that order, before DONE, for every outcome of the
\* adapters; with an empty merged result it goes from MERGE to DONE, nothing
\* is ranked and nothing is stored.
C18_RequestStateMachine ==
    (pc # "idle" /\ ~Truthy(req.cursor)) =>
        /\ pc = "gather" => phases = <<"CACHE_CHECK", "FANOUT">>
        /\ ServedFromCache =>
              (phases = <<"CACHE_CHECK">> /\ oa.st = "absent" /\ cl.st = "absent")
        /\ (Answered /\ ranked # <<>>) =>
              phases = <<"CACHE_CHECK", "FANOUT", "MERGE", "RANK", "CACHE_STORE">>
        /\ (Answered /\ ranked = <<>>) =>
              (phases = <<"CACHE_CHECK", "FANOUT", "MERGE">> /\ cacheOps.set = 0)

\* a miss answered with results, and a hit
C18_Witness ==
    /\ ServedFromCache
    /\ ~Truthy(req.cursor)
    /\ phases = <<"CACHE_CHECK">>
    /\ nreq = 2

\* C18 as first stated: on a miss the request passes through FANOUT, MERGE,
\* RANK and CACHE_STORE, each exactly once and in that order, before DONE,
\* an empty merged result included.
C18_Original ==
    (pc = "done" /\ ~Truthy(req.cursor)) =>
        /\ ServedFromCache => phases = <<"CACHE_CHECK">>
        /\ Answered =>
              phases = <<"CACHE_CHECK", "FANOUT", "MERGE", "RANK", "CACHE_STORE">>

-----------------------------------------------------------------------------
\* C19: the revocation check of a refresh token fails closed: whenever the
\* cache backend is unreachable or raises during the lookup, is_token_revoked
\* returns True and decode_refresh_token rejects the token.
C19_RevocationCheckFailsClosed ==
    (/\ call.st = "decode_refresh_token"
     /\ call.asked
     /\ (~call.up \/ cs.client = "None")) =>
        (call.revoked /\ call.value = PyNone)

-----------------------------------------------------------------------------
\* C21: for every file name and every max_length the result of
\* sanitize_filename has at most max_length characters and does not end with
\* an underscore.
C21_SanitizedFilenameLength ==
    (call.st = "sanitize" /\ call.done) =>
        /\ Len(call.value) <= call.max_length
        /\ call.value # <<>> => call.value[Len(call.value)] # 95

-----------------------------------------------------------------------------
\* C22: concurrent search requests share nothing but the contents of the cache
\* backend: whether the cache lookup of a request is answered by the backend
\* depends only on whether the backend was reachable when that request asked
\* for the client and when it read, not on what another request wrote to the
\* cache_service singleton.
C22_NoSharedInProcessState ==
    call.st = "lookups" =>
        \A p \in 1..2 :
            call.procs[p].at = "done" =>
                call.procs[p].answered = (call.procs[p].up_client /\ call.procs[p].up_get)

-----------------------------------------------------------------------------
\* C23: in every response next_cursor is null or exactly the next_cursor the
\* OpenAlex adapter returned for that request, and it is null when that adapter
\* was not selected or failed; the CyberLeninka task returns what it returns
\* for the same request without a cursor.
C23_NextCursorFromOpenAlexOnly ==
    /\ ServedFromCache => response.val.next_cursor = PyNone
    /\ Answered =>
          LET returned == IF oa.st = "done"
                          THEN DictGet(oa.res, "next_cursor", PyNone) ELSE PyNone
              failed == oa.st = "done" /\ (oa.timed_out \/ ~oa.client_ok)
          IN  /\ response.val.next_cursor \in {PyNone, returned}
              /\ Truthy(returned) => response.val.next_cursor = returned
              /\ (oa.st = "absent" \/ failed) => response.val.next_cursor = PyNone
    /\ (pc \in {"gather", "done"} /\ cl.st = "done") =>
          \E kinds \in [1..MAX_RETRIES -> CyberLeninkaOutcomes] :
              cl = DoneTask(search_cyberleninka([req EXCEPT !.cursor = PyNone],
                                                CyberLeninkaHoldings[upstream.cl],
                                                Outcomes(kinds)),
                            Outcomes(kinds))

\* a cursor request to both sources: the token of OpenAlex is surfaced and
\* CyberLeninka contributed its records all the same
C23_Witness ==
    /\ Answered
    /\ Truthy(req.cursor)
    /\ oa.st = "done" /\ cl.st = "done"
    /\ cl.res.val.results.val # <<>>
    /\ response.val.next_cursor = PyStr(NEXT_TOKEN)
    /\ oa.res.val.next_cursor = PyStr(NEXT_TOKEN)

-----------------------------------------------------------------------------
\* C24: CyberLeninkaClient.search returns, in harvest order, exactly the first
\* min(limit, m) parseable records whose lower-cased text (title, description,
\* subjects, creators) contains the lower-cased query, m being the number of
\* such records in the harvested response; for limit >= 1 it never returns
\* more than limit records, and total is the number of records returned.
C24_HarvestFilter ==
    (call.st = "harvest" /\ call.done) =>
        LET matching(record) ==
                /\ parse_record(record) # PyNone
                /\ Contains(searchable_of(parse_record(record)), Lower(call.query.val))
            matches == SelectSeq(call.records, matching)
            n == Min(call.limit, Len(matches))
            returned == call.value.val.results.val
        IN  /\ returned = [i \in 1..n |-> parse_record(matches[i])]
            /\ Len(returned) <= call.limit
            /\ call.value.val.total = PyInt(Len(returned))

\* a record that cannot be parsed and two that match, with limit 1: the first
\* match is returned alone
C24_Witness ==
    /\ call.st = "harvest" /\ call.done
    /\ call.records = <<XBAD, A3, A1>>
    /\ call.query = PyStr(<<"r", "n", "a">>)
    /\ call.limit = 1
    /\ call.value.val.results.val = <<parse_record(A3)>>
    /\ call.value.val.total = PyInt(1)


\* C25: of two /refresh requests that present the same valid refresh token, at
\* most one is issued a new token pair, and once both have answered every one
\* that was not issued a pair has status 401
C25_SingleWinnerRotation ==
    call.st = "refresh" =>
        \A p, q \in 1..2 :
            (p # q /\ call.procs[p].token = call.procs[q].token) =>
                /\ ~(call.procs[p].issued /\ call.procs[q].issued)
                /\ (call.procs[p].at = "done" /\ ~call.procs[p].issued)
                       => call.procs[p].status = 401

C25_Witness ==
    /\ call.st = "refresh"
    /\ call.procs[1].token = call.procs[2].token
    /\ call.procs[1].token.signed /\ ~call.procs[1].token.expired
    /\ "sub" \in DOMAIN call.procs[1].token.claims
    /\ call.procs[1].token.claims.sub = PyStr(<<"u","1">>)
    /\ \A p \in 1..2 : call.procs[p].at = "done" /\ call.procs[p].up_all
                       /\ call.procs[p].detail = "Refresh token already used. Please login again."

\* C26: a /refresh request with a valid, unexpired, never-used refresh token of
\* an existing non-deleted user, served while the cache backend is available,
\* is answered 200 with a new token pair, and the token's jti is then stored
\* under revoked_token:<jti>, where is_token_revoked finds it
C26_ValidRefreshRotates ==
    call.st = "refresh" =>
        \A p \in 1..2 :
            LET me == call.procs[p]
            IN  (/\ me.at = "done"
                 /\ me.up_all /\ cs.client = "redis"
                 /\ me.token.signed /\ ~me.token.expired
                 /\ "sub" \in DOMAIN me.token.claims
                 /\ me.token.claims.sub = PyStr(<<"u","1">>)
                 /\ \A q \in 1..2 : q # p => call.procs[q].token # me.token)
                => /\ me.status = 200 /\ me.issued
                   /\ is_token_revoked(cs, redisUp, redis, me.token.claims.jti).value


\* C27: a call of OpenAlexClient._request leaves the retry loop by a return or
\* by a raise from inside the loop, whatever the outcomes of its attempts; the
\* statements after the loop are never executed
C27_AfterLoopUnreachable ==
    (call.st = "ended" /\ "client" \in DOMAIN call /\ call.client = "openalex") =>
        call.end # "after_loop"


\* C28: a search that went to its adapters always gets to DONE with a response,
\* whatever the adapters' HTTP outcomes are (429, timeout and 5xx on every
\* attempt included), and by then the task of every selected adapter has ended
C28_SearchTerminates ==
    (pc = "gather") ~>
        (/\ pc = "done"
         /\ response # PyNone
         /\ InList("openalex", tasks_of(req)) => oa.st = "done"
         /\ InList("cyberleninka", tasks_of(req)) => cl.st = "done")

\* a search whose two adapters timed out on all three attempts is DONE with a
\* response
C28_Witness ==
    /\ pc = "done"
    /\ response # PyNone
    /\ oa.st = "done" /\ cl.st = "done"
    /\ oa.timed_out /\ cl.timed_out


\* C29: the cache recovers. When the backend was unreachable at the first cache
\* operation of the process (the singleton holds no client) and is reachable
\* again, a later offset-mode search that ends with a non-empty result has
\* stored it, so that an identical request inside the TTL is served from the
\* cache
C29_CacheRecovers ==
    (/\ pc = "done"
     /\ cs.initialized /\ cs.client = "None"
     /\ prior # "none"
     /\ redisUp
     /\ response.val.from_cache = PyBool(FALSE)
     /\ cache_storable(req, ranked))
        => <<CACHE_PREFIX, <<"search:", cache_key_of(req)>>>> \in DOMAIN redis


\* C30: pages do not overlap (offset mode). With both sources selected and the
\* upstream data unchanged, the page at offset 0 and the page at offset = limit
\* of one query have no item, told by source and external id, in common
C30_PagesDoNotOverlap ==
    \A query \in Queries, limit \in Limits :
        LET first == cache_key_of(Request(query, limit, 0, PyNone, PyNone))
            second == cache_key_of(Request(query, limit, limit, PyNone, PyNone))
            ids(resp) == {<<resp.val.results.val[i].val.source,
                            resp.val.results.val[i].val.external_id>> :
                             i \in DOMAIN resp.val.results.val}
        IN  (first \in DOMAIN stored /\ second \in DOMAIN stored) =>
                ids(stored[first].resp) \cap ids(stored[second].resp) = {}

====
